---- MODULE Spec2Model ----
(***************************************************************************)
(* Model of the rusm64 assembler back end (src/src/assembler/mod.rs) and   *)
(* of the string-operand AST it consumes (src/src/ast/mod.rs).             *)
(*                                                                         *)
(* Strings are sequences of one-character strings, so that the prefix     *)
(* tests, trims, splits and radix conversions of the code are computed    *)
(* character by character as the code computes them.                      *)
(***************************************************************************)
EXTENDS Integers, Sequences, FiniteSets, TLC

(***************************************************************************)
(* Bounds of the model.                                                    *)
(***************************************************************************)
\* number of add_* calls that build one Ast
MaxLines == 3
\* length of the long .text directive of the input menu
TextLen == 127
\* recursion budget of parse_value (depth of constant substitution)
MaxDepth == 3

(***************************************************************************)
(* Program constants.                                                      *)
(***************************************************************************)
DefaultOrigin == 4096
\* the cap on pass_count in assemble
MaxPasses == 5

(***************************************************************************)
(* Strings: helpers modelling the std::str methods the code calls.         *)
(***************************************************************************)
\* the ASCII characters of the source language, as <<character, code>>
AsciiChars ==
  << <<" ", 32>>, <<"!", 33>>, <<"\"", 34>>, <<"#", 35>>, <<"$", 36>>, <<"%", 37>>,
     <<"(", 40>>, <<")", 41>>, <<"*", 42>>, <<"+", 43>>, <<",", 44>>, <<"-", 45>>,
     <<".", 46>>, <<"0", 48>>, <<"1", 49>>, <<"2", 50>>, <<"3", 51>>, <<"4", 52>>,
     <<"5", 53>>, <<"6", 54>>, <<"7", 55>>, <<"8", 56>>, <<"9", 57>>, <<":", 58>>,
     <<"A", 65>>, <<"B", 66>>, <<"C", 67>>, <<"D", 68>>, <<"E", 69>>, <<"F", 70>>,
     <<"G", 71>>, <<"H", 72>>, <<"I", 73>>, <<"J", 74>>, <<"K", 75>>, <<"L", 76>>,
     <<"M", 77>>, <<"N", 78>>, <<"O", 79>>, <<"P", 80>>, <<"Q", 81>>, <<"R", 82>>,
     <<"S", 83>>, <<"T", 84>>, <<"U", 85>>, <<"V", 86>>, <<"W", 87>>, <<"X", 88>>,
     <<"Y", 89>>, <<"Z", 90>>, <<"_", 95>>,
     <<"a", 97>>, <<"b", 98>>, <<"c", 99>>, <<"d", 100>>, <<"e", 101>>, <<"f", 102>>,
     <<"g", 103>>, <<"h", 104>>, <<"i", 105>>, <<"j", 106>>, <<"k", 107>>, <<"l", 108>>,
     <<"m", 109>>, <<"n", 110>>, <<"o", 111>>, <<"p", 112>>, <<"q", 113>>, <<"r", 114>>,
     <<"s", 115>>, <<"t", 116>>, <<"u", 117>>, <<"v", 118>>, <<"w", 119>>, <<"x", 120>>,
     <<"y", 121>>, <<"z", 122>> >>

\* the code of each character
AsciiCode ==
  [c \in {AsciiChars[i][1] : i \in 1..Len(AsciiChars)} |->
     AsciiChars[CHOOSE i \in 1..Len(AsciiChars) : AsciiChars[i][1] = c][2]]

\* str::bytes() of one ASCII character
ByteOf(c) == AsciiCode[c]

\* str::bytes()
Bytes(s) == [i \in 1..Len(s) |-> ByteOf(s[i])]

\* &s[from..to] with Rust's 0-based, end-exclusive indices, as 1-based SubSeq
Slice(s, from, to) == SubSeq(s, from + 1, to)

starts_with(s, p) == Len(s) >= Len(p) /\ SubSeq(s, 1, Len(p)) = p

ends_with(s, p) == Len(s) >= Len(p) /\ SubSeq(s, Len(s) - Len(p) + 1, Len(s)) = p

contains(s, c) == \E i \in 1..Len(s) : s[i] = c

RECURSIVE trim_start_matches(_, _)
trim_start_matches(s, c) ==
  IF s # <<>> /\ Head(s) = c THEN trim_start_matches(Tail(s), c) ELSE s

RECURSIVE trim_end_matches(_, _)
trim_end_matches(s, c) ==
  IF s # <<>> /\ s[Len(s)] = c
  THEN trim_end_matches(SubSeq(s, 1, Len(s) - 1), c) ELSE s

\* str::trim() for the blanks that occur in directive values
trim(s) == trim_end_matches(trim_start_matches(s, " "), " ")

\* s.split(c).next(): the text before the first c (the whole text without c)
split_first(s, c) ==
  IF contains(s, c)
  THEN SubSeq(s, 1, (CHOOSE i \in 1..Len(s) :
                       s[i] = c /\ \A j \in 1..(i - 1) : s[j] # c) - 1)
  ELSE s

\* s.split(c).collect(): all the pieces, in order
RECURSIVE split(_, _)
split(s, c) ==
  IF contains(s, c)
  THEN LET first == split_first(s, c)
       IN  <<first>> \o split(SubSeq(s, Len(first) + 2, Len(s)), c)
  ELSE <<s>>

\* char::is_digit(radix) and char::to_digit(radix)
DigitChars == << "0", "1", "2", "3", "4", "5", "6", "7", "8", "9",
                 "a", "b", "c", "d", "e", "f" >>
UpperDigitChars == << "0", "1", "2", "3", "4", "5", "6", "7", "8", "9",
                      "A", "B", "C", "D", "E", "F" >>

is_digit(c, radix) ==
  \E i \in 1..radix : DigitChars[i] = c \/ UpperDigitChars[i] = c

to_digit(c, radix) ==
  (CHOOSE i \in 1..radix : DigitChars[i] = c \/ UpperDigitChars[i] = c) - 1

\* usize::from_str_radix: -1 stands for the Err result (empty text or a
\* character that is no digit of the radix)
RECURSIVE radix_value(_, _, _)
radix_value(s, radix, acc) ==
  IF s = <<>> THEN acc
  ELSE radix_value(Tail(s), radix, acc * radix + to_digit(Head(s), radix))

from_str_radix(s, radix) ==
  IF s = <<>> \/ \E i \in 1..Len(s) : ~is_digit(s[i], radix)
  THEN -1
  ELSE radix_value(s, radix, 0)

(***************************************************************************)
(* The opcode table (src/src/assembler/opcodes.rs).                        *)
(***************************************************************************)
\* the table.insert calls of build_opcode_table, in order:
\* <<opcode, addressing mode, byte, size, cycles>>
OpcodeInserts == <<
    <<"LDA", "Immediate", 169, 2, 2>>, <<"LDA", "ZeroPage", 165, 2, 3>>,
    <<"LDA", "ZeroPageX", 181, 2, 4>>, <<"LDA", "Absolute", 173, 3, 4>>,
    <<"LDA", "AbsoluteX", 189, 3, 4>>, <<"LDA", "AbsoluteY", 185, 3, 4>>,
    <<"LDA", "IndexedIndirect", 161, 2, 6>>, <<"LDA", "IndirectIndexed", 177, 2, 5>>,
    <<"LDX", "Immediate", 162, 2, 2>>, <<"LDX", "ZeroPage", 166, 2, 3>>,
    <<"LDX", "ZeroPageY", 182, 2, 4>>, <<"LDX", "Absolute", 174, 3, 4>>,
    <<"LDX", "AbsoluteY", 190, 3, 4>>, <<"LDY", "Immediate", 160, 2, 2>>,
    <<"LDY", "ZeroPage", 164, 2, 3>>, <<"LDY", "ZeroPageX", 180, 2, 4>>,
    <<"LDY", "Absolute", 172, 3, 4>>, <<"LDY", "AbsoluteX", 188, 3, 4>>,
    <<"STA", "ZeroPage", 133, 2, 3>>, <<"STA", "ZeroPageX", 149, 2, 4>>,
    <<"STA", "Absolute", 141, 3, 4>>, <<"STA", "AbsoluteX", 157, 3, 5>>,
    <<"STA", "AbsoluteY", 153, 3, 5>>, <<"STA", "IndexedIndirect", 129, 2, 6>>,
    <<"STA", "IndirectIndexed", 145, 2, 6>>, <<"STX", "ZeroPage", 134, 2, 3>>,
    <<"STX", "ZeroPageY", 150, 2, 4>>, <<"STX", "Absolute", 142, 3, 4>>,
    <<"STY", "ZeroPage", 132, 2, 3>>, <<"STY", "ZeroPageX", 148, 2, 4>>,
    <<"STY", "Absolute", 140, 3, 4>>, <<"TAX", "Implied", 170, 1, 2>>,
    <<"TAY", "Implied", 168, 1, 2>>, <<"TSX", "Implied", 186, 1, 2>>,
    <<"TXA", "Implied", 138, 1, 2>>, <<"TXS", "Implied", 154, 1, 2>>,
    <<"TYA", "Implied", 152, 1, 2>>, <<"PHA", "Implied", 72, 1, 3>>,
    <<"PHP", "Implied", 8, 1, 3>>, <<"PLA", "Implied", 104, 1, 4>>,
    <<"PLP", "Implied", 40, 1, 4>>, <<"AND", "Immediate", 41, 2, 2>>,
    <<"AND", "ZeroPage", 37, 2, 3>>, <<"AND", "ZeroPageX", 53, 2, 4>>,
    <<"AND", "Absolute", 45, 3, 4>>, <<"AND", "AbsoluteX", 61, 3, 4>>,
    <<"AND", "AbsoluteY", 57, 3, 4>>, <<"AND", "IndexedIndirect", 33, 2, 6>>,
    <<"AND", "IndirectIndexed", 49, 2, 5>>, <<"EOR", "Immediate", 73, 2, 2>>,
    <<"EOR", "ZeroPage", 69, 2, 3>>, <<"EOR", "ZeroPageX", 85, 2, 4>>,
    <<"EOR", "Absolute", 77, 3, 4>>, <<"EOR", "AbsoluteX", 93, 3, 4>>,
    <<"EOR", "AbsoluteY", 89, 3, 4>>, <<"EOR", "IndexedIndirect", 65, 2, 6>>,
    <<"EOR", "IndirectIndexed", 81, 2, 5>>, <<"ORA", "Immediate", 9, 2, 2>>,
    <<"ORA", "ZeroPage", 5, 2, 3>>, <<"ORA", "ZeroPageX", 21, 2, 4>>,
    <<"ORA", "Absolute", 13, 3, 4>>, <<"ORA", "AbsoluteX", 29, 3, 4>>,
    <<"ORA", "AbsoluteY", 25, 3, 4>>, <<"ORA", "IndexedIndirect", 1, 2, 6>>,
    <<"ORA", "IndirectIndexed", 17, 2, 5>>, <<"BIT", "ZeroPage", 36, 2, 3>>,
    <<"BIT", "Absolute", 44, 3, 4>>, <<"ADC", "Immediate", 105, 2, 2>>,
    <<"ADC", "ZeroPage", 101, 2, 3>>, <<"ADC", "ZeroPageX", 117, 2, 4>>,
    <<"ADC", "Absolute", 109, 3, 4>>, <<"ADC", "AbsoluteX", 125, 3, 4>>,
    <<"ADC", "AbsoluteY", 121, 3, 4>>, <<"ADC", "IndexedIndirect", 97, 2, 6>>,
    <<"ADC", "IndirectIndexed", 113, 2, 5>>, <<"SBC", "Immediate", 233, 2, 2>>,
    <<"SBC", "ZeroPage", 229, 2, 3>>, <<"SBC", "ZeroPageX", 245, 2, 4>>,
    <<"SBC", "Absolute", 237, 3, 4>>, <<"SBC", "AbsoluteX", 253, 3, 4>>,
    <<"SBC", "AbsoluteY", 249, 3, 4>>, <<"SBC", "IndexedIndirect", 225, 2, 6>>,
    <<"SBC", "IndirectIndexed", 241, 2, 5>>, <<"CMP", "Immediate", 201, 2, 2>>,
    <<"CMP", "ZeroPage", 197, 2, 3>>, <<"CMP", "ZeroPageX", 213, 2, 4>>,
    <<"CMP", "Absolute", 205, 3, 4>>, <<"CMP", "AbsoluteX", 221, 3, 4>>,
    <<"CMP", "AbsoluteY", 217, 3, 4>>, <<"CMP", "IndexedIndirect", 193, 2, 6>>,
    <<"CMP", "IndirectIndexed", 209, 2, 5>>, <<"CPX", "Immediate", 224, 2, 2>>,
    <<"CPX", "ZeroPage", 228, 2, 3>>, <<"CPX", "Absolute", 236, 3, 4>>,
    <<"CPY", "Immediate", 192, 2, 2>>, <<"CPY", "ZeroPage", 196, 2, 3>>,
    <<"CPY", "Absolute", 204, 3, 4>>, <<"INC", "ZeroPage", 230, 2, 5>>,
    <<"INC", "ZeroPageX", 246, 2, 6>>, <<"INC", "Absolute", 238, 3, 6>>,
    <<"INC", "AbsoluteX", 254, 3, 7>>, <<"INX", "Implied", 232, 1, 2>>,
    <<"INY", "Implied", 200, 1, 2>>, <<"DEC", "ZeroPage", 198, 2, 5>>,
    <<"DEC", "ZeroPageX", 214, 2, 6>>, <<"DEC", "Absolute", 206, 3, 6>>,
    <<"DEC", "AbsoluteX", 222, 3, 7>>, <<"DEX", "Implied", 202, 1, 2>>,
    <<"DEY", "Implied", 136, 1, 2>>, <<"ASL", "Accumulator", 10, 1, 2>>,
    <<"ASL", "ZeroPage", 6, 2, 5>>, <<"ASL", "ZeroPageX", 22, 2, 6>>,
    <<"ASL", "Absolute", 14, 3, 6>>, <<"ASL", "AbsoluteX", 30, 3, 7>>,
    <<"LSR", "Accumulator", 74, 1, 2>>, <<"LSR", "ZeroPage", 70, 2, 5>>,
    <<"LSR", "ZeroPageX", 86, 2, 6>>, <<"LSR", "Absolute", 78, 3, 6>>,
    <<"LSR", "AbsoluteX", 94, 3, 7>>, <<"ROL", "Accumulator", 42, 1, 2>>,
    <<"ROL", "ZeroPage", 38, 2, 5>>, <<"ROL", "ZeroPageX", 54, 2, 6>>,
    <<"ROL", "Absolute", 46, 3, 6>>, <<"ROL", "AbsoluteX", 62, 3, 7>>,
    <<"ROR", "Accumulator", 106, 1, 2>>, <<"ROR", "ZeroPage", 102, 2, 5>>,
    <<"ROR", "ZeroPageX", 118, 2, 6>>, <<"ROR", "Absolute", 110, 3, 6>>,
    <<"ROR", "AbsoluteX", 126, 3, 7>>, <<"JMP", "Absolute", 76, 3, 3>>,
    <<"JMP", "Indirect", 108, 3, 5>>, <<"JSR", "Absolute", 32, 3, 6>>,
    <<"RTS", "Implied", 96, 1, 6>>, <<"RTI", "Implied", 64, 1, 6>>,
    <<"BCC", "Relative", 144, 2, 2>>, <<"BCS", "Relative", 176, 2, 2>>,
    <<"BEQ", "Relative", 240, 2, 2>>, <<"BMI", "Relative", 48, 2, 2>>,
    <<"BNE", "Relative", 208, 2, 2>>, <<"BPL", "Relative", 16, 2, 2>>,
    <<"BVC", "Relative", 80, 2, 2>>, <<"BVS", "Relative", 112, 2, 2>>,
    <<"CLC", "Implied", 24, 1, 2>>, <<"CLD", "Implied", 216, 1, 2>>,
    <<"CLI", "Implied", 88, 1, 2>>, <<"CLV", "Implied", 184, 1, 2>>,
    <<"SEC", "Implied", 56, 1, 2>>, <<"SED", "Implied", 248, 1, 2>>,
    <<"SEI", "Implied", 120, 1, 2>>, <<"NOP", "Implied", 234, 1, 2>>,
    <<"SLO", "ZeroPage", 7, 2, 5>>, <<"RLA", "ZeroPage", 39, 2, 5>>,
    <<"SRE", "ZeroPage", 71, 2, 5>>, <<"RRA", "ZeroPage", 103, 2, 5>>,
    <<"SAX", "ZeroPage", 135, 2, 3>>, <<"LAX", "ZeroPage", 167, 2, 3>>,
    <<"DCP", "ZeroPage", 199, 2, 5>>, <<"ISC", "ZeroPage", 231, 2, 5>> >>

\* the HashMap the inserts build: a later insert of a key replaces an earlier
build_opcode_table ==
  LET keys == { <<OpcodeInserts[i][1], OpcodeInserts[i][2]>> : i \in 1..Len(OpcodeInserts) }
      last(k) == CHOOSE i \in 1..Len(OpcodeInserts) :
                   /\ <<OpcodeInserts[i][1], OpcodeInserts[i][2]>> = k
                   /\ \A j \in (i + 1)..Len(OpcodeInserts) :
                        <<OpcodeInserts[j][1], OpcodeInserts[j][2]>> # k
  IN  [k \in keys |-> [byte   |-> OpcodeInserts[last(k)][3],
                       size   |-> OpcodeInserts[last(k)][4],
                       cycles |-> OpcodeInserts[last(k)][5]]]

OPCODE_TABLE == build_opcode_table

(***************************************************************************)
(* The AST (src/src/ast/mod.rs).                                           *)
(*   Operand     [kind, expr]        kind is the variant, expr its String  *)
(*   Instruction [opcode, operand]   operand is <<>> (None) or <<Operand>> *)
(*   Directive   [name, value]                                             *)
(*   Ast         [instructions, labels, constants, directives]             *)
(* The labels map of the Ast is modelled by its key set: the Label values  *)
(* (name, position) are never read by the assembler.                       *)
(***************************************************************************)
Operand(kind, expr) == [kind |-> kind, expr |-> expr]

Instruction(opcode, operand) == [opcode |-> opcode, operand |-> operand]

Directive(name, value) == [name |-> name, value |-> value]

\* Ast::new
AstNew == [instructions |-> <<>>, labels |-> {}, constants |-> <<>>, directives |-> <<>>]

\* Ast::add_instruction
add_instruction(a, instruction) ==
  [a EXCEPT !.instructions = Append(@, instruction)]

\* Ast::add_label: HashMap::insert, an existing key is replaced silently
add_label(a, name) == [a EXCEPT !.labels = @ \cup {name}]

\* Ast::add_constant: HashMap::insert keyed by name; the map is the function
\* from the inserted names to their last value
add_constant(a, name, value) ==
  [a EXCEPT !.constants =
     [n \in (DOMAIN a.constants) \cup {name} |->
        IF n = name THEN value ELSE a.constants[n]]]

\* Ast::add_directive
add_directive(a, directive) ==
  [a EXCEPT !.directives = Append(@, directive)]

\* impl Display for Operand
Display(operand) ==
  CASE operand.kind = "Immediate"       -> <<"#">> \o operand.expr
    [] operand.kind = "Address"         -> operand.expr
    [] operand.kind = "IndexedX"        -> operand.expr \o <<",", "X">>
    [] operand.kind = "IndexedY"        -> operand.expr \o <<",", "Y">>
    [] operand.kind = "Indirect"        -> <<"(">> \o operand.expr \o <<")">>
    [] operand.kind = "IndexedIndirect" -> <<"(">> \o operand.expr \o <<",", "X", ")">>
    [] operand.kind = "IndirectIndexed" -> <<"(">> \o operand.expr \o <<",", "Y", ")">>

BranchOpcodes == {"BCC", "BCS", "BEQ", "BMI", "BNE", "BPL", "BVC", "BVS"}

\* Operand::get_addressing_mode
get_addressing_mode(operand, opcode) ==
  IF opcode \in BranchOpcodes THEN "Relative"
  ELSE CASE operand.kind = "Immediate" -> "Immediate"
         [] operand.kind = "Address" ->
              IF starts_with(operand.expr, <<"$">>) /\ Len(operand.expr) <= 3
              THEN "ZeroPage" ELSE "Absolute"
         [] operand.kind = "IndexedX" ->
              IF starts_with(operand.expr, <<"$">>) /\ Len(operand.expr) <= 3
              THEN "ZeroPageX" ELSE "AbsoluteX"
         [] operand.kind = "IndexedY" ->
              IF starts_with(operand.expr, <<"$">>) /\ Len(operand.expr) <= 3
              THEN "ZeroPageY" ELSE "AbsoluteY"
         [] operand.kind = "Indirect"        -> "Indirect"
         [] operand.kind = "IndexedIndirect" -> "IndexedIndirect"
         [] operand.kind = "IndirectIndexed" -> "IndirectIndexed"

\* Operand::parse
Operand_parse(s) ==
  IF starts_with(s, <<"#">>)
  THEN Operand("Immediate", Slice(s, 1, Len(s)))
  ELSE IF ends_with(s, <<",", "x">>) \/ ends_with(s, <<",", "X">>)
  THEN Operand("IndexedX", Slice(s, 0, Len(s) - 2))
  ELSE IF ends_with(s, <<",", "y">>) \/ ends_with(s, <<",", "Y">>)
  THEN Operand("IndexedY", Slice(s, 0, Len(s) - 2))
  ELSE IF \/ starts_with(s, <<"(">>) /\ ends_with(s, <<")", ",", "y">>)
          \/ ends_with(s, <<")", ",", "Y">>)
  THEN Operand("IndirectIndexed", Slice(s, 1, Len(s) - 3))
  ELSE IF /\ starts_with(s, <<"(">>)
          /\ (ends_with(s, <<",", "x", ")">>) \/ ends_with(s, <<",", "X", ")">>))
  THEN Operand("IndexedIndirect", Slice(s, 1, Len(s) - 3))
  ELSE IF starts_with(s, <<"(">>) /\ ends_with(s, <<")">>)
  THEN Operand("Indirect", Slice(s, 1, Len(s) - 1))
  ELSE Operand("Address", s)

(***************************************************************************)
(* The assembler (src/src/assembler/mod.rs).  A method of Assembler is an  *)
(* operator from the Assembler value `self` (and the arguments) to the     *)
(* record [self |-> the Assembler afterwards, r |-> the Result returned].  *)
(***************************************************************************)
Ok(v) == [ok |-> TRUE, v |-> v, err |-> "None"]

Err(kind) == [ok |-> FALSE, v |-> <<>>, err |-> kind]

Ret(self, r) == [self |-> self, r |-> r]

\* Assembler::new
AssemblerNew ==
  [pc |-> 0, binary |-> <<>>, labels |-> <<>>, unresolved_refs |-> <<>>,
   origin |-> DefaultOrigin, ast |-> AstNew]

\* HashMap::insert on the labels map
insert(map, key, value) ==
  [k \in (DOMAIN map) \cup {key} |-> IF k = key THEN value ELSE map[k]]

\* Result<usize, _> of usize::from_str_radix(..).map_err(Parse), -1 the Err
number(n) == IF n < 0 THEN Err("Parse") ELSE Ok(n)

\* Assembler::parse_value.  depth counts the nested calls made for constant
\* substitution; the code recurses without bound, so running out of the
\* budget stands for the stack overflow that ends the process.
RECURSIVE parse_value(_, _, _)
parse_value(self, value, depth) ==
  IF starts_with(value, <<"\"">>) /\ ends_with(value, <<"\"">>)
  THEN IF Len(value) < 2 THEN Ret(self, Err("Panic"))
       ELSE IF Len(value) > 2 THEN Ret(self, Ok(ByteOf(value[2])))
       ELSE Ret(self, Err("Parse"))
  ELSE IF starts_with(value, <<"$">>)
  THEN Ret(self, number(from_str_radix(Slice(value, 1, Len(value)), 16)))
  ELSE IF starts_with(value, <<"%">>)
  THEN Ret(self, number(from_str_radix(Slice(value, 1, Len(value)), 2)))
  ELSE IF \A i \in 1..Len(value) : is_digit(value[i], 10)
  THEN Ret(self, number(from_str_radix(value, 10)))
  ELSE IF value \in DOMAIN self.labels
  THEN Ret(self, Ok(self.labels[value]))
  ELSE IF value \in DOMAIN self.ast.constants
  THEN IF depth >= MaxDepth THEN Ret(self, Err("StackOverflow"))
       ELSE parse_value(self, self.ast.constants[value], depth + 1)
  ELSE Ret([self EXCEPT !.unresolved_refs =
                          Append(@, <<self.pc, value, FALSE>>)],
           Ok(0))

\* instruction_size with the Relative mode counted as one byte
instruction_size_short(instruction) ==
  IF instruction.operand # <<>>
  THEN LET addr_mode == get_addressing_mode(instruction.operand[1], instruction.opcode)
       IN  CASE addr_mode \in {"Implied", "Accumulator", "Relative"} -> 1
             [] addr_mode \in {"Immediate", "ZeroPage", "ZeroPageX", "ZeroPageY",
                               "IndexedIndirect", "IndirectIndexed"} -> 2
             [] addr_mode \in {"Absolute", "AbsoluteX", "AbsoluteY", "Indirect"} -> 3
  ELSE 1

\* mode_size with the Indirect mode counted as two bytes
mode_size_indirect_short(addr_mode) ==
  CASE addr_mode \in {"Implied", "Accumulator"} -> 1
    [] addr_mode \in {"Immediate", "ZeroPage", "ZeroPageX", "ZeroPageY", "Indirect",
                      "Relative", "IndexedIndirect", "IndirectIndexed"} -> 2
    [] addr_mode \in {"Absolute", "AbsoluteX", "AbsoluteY"} -> 3

\* instruction_size, `match addr_mode`
mode_size(addr_mode) ==
  CASE addr_mode \in {"Implied", "Accumulator"} -> 1
    [] addr_mode \in {"Immediate", "ZeroPage", "ZeroPageX", "ZeroPageY",
                      "Relative", "IndexedIndirect", "IndirectIndexed"} -> 2
    [] addr_mode \in {"Absolute", "AbsoluteX", "AbsoluteY", "Indirect"} -> 3

\* Assembler::instruction_size
instruction_size(instruction) ==
  IF instruction.operand # <<>>
  THEN mode_size(get_addressing_mode(instruction.operand[1], instruction.opcode))
  ELSE 1

\* Assembler::get_opcode_byte
get_opcode_byte(opcode, addr_mode) ==
  IF <<opcode, addr_mode>> \in DOMAIN OPCODE_TABLE
  THEN Ok(OPCODE_TABLE[<<opcode, addr_mode>>].byte)
  ELSE Err("InvalidAddressingMode")

\* the operand text handed to parse_value by each arm of encode_instruction
value_str(operand, addr_mode) ==
  CASE addr_mode = "Immediate" -> trim_start_matches(Display(operand), "#")
    [] addr_mode \in {"ZeroPage", "ZeroPageX", "ZeroPageY",
                      "Absolute", "AbsoluteX", "AbsoluteY"} ->
         split_first(Display(operand), ",")
    [] addr_mode = "Indirect" ->
         trim_end_matches(trim_start_matches(Display(operand), "("), ")")
    [] addr_mode \in {"IndexedIndirect", "IndirectIndexed"} ->
         IF contains(Display(operand), ",")
         THEN split_first(trim_start_matches(Display(operand), "("), ",")
         ELSE trim_end_matches(trim_start_matches(Display(operand), "("), ")")

\* (value & 0xFF) as u8 and ((value >> 8) & 0xFF) as u8
lo(value) == value % 256

hi(value) == (value \div 256) % 256

\* encode_instruction, the 1-byte operand arms after `parse_value(value_str)`:
\* p is what parse_value returned
encode_byte_operand(opcode_byte, p) ==
  IF ~p.r.ok THEN p
  ELSE IF p.r.v > 255 THEN Ret(p.self, Err("SourceLineError"))
  ELSE Ret(p.self, Ok(<<opcode_byte, lo(p.r.v)>>))

\* encode_instruction, the 2-byte operand arms after `parse_value(value_str)`
encode_word_operand(opcode_byte, p) ==
  IF ~p.r.ok THEN p
  ELSE IF p.r.v > 65535 THEN Ret(p.self, Err("SourceLineError"))
  ELSE Ret(p.self, Ok(<<opcode_byte, lo(p.r.v), hi(p.r.v)>>))

\* encode_instruction, `if let Some(operand) = &instruction.operand { match addr_mode`
encode_operand(self, operand, addr_mode, opcode_byte) ==
  CASE addr_mode \in {"Implied", "Accumulator"} -> Ret(self, Ok(<<opcode_byte>>))
    [] addr_mode \in {"Immediate", "ZeroPage", "ZeroPageX", "ZeroPageY",
                      "IndexedIndirect", "IndirectIndexed"} ->
         encode_byte_operand(opcode_byte,
                             parse_value(self, value_str(operand, addr_mode), 0))
    [] addr_mode \in {"Absolute", "AbsoluteX", "AbsoluteY", "Indirect"} ->
         encode_word_operand(opcode_byte,
                             parse_value(self, value_str(operand, addr_mode), 0))
    [] addr_mode = "Relative" ->
         Ret([self EXCEPT !.unresolved_refs =
                            Append(@, <<self.pc, Display(operand), TRUE>>)],
             Ok(<<opcode_byte, 0>>))

\* encode_instruction, from `let opcode_byte = self.get_opcode_byte(..)?` on
encode_with_mode(self, instruction, addr_mode, opcode_byte) ==
  IF ~opcode_byte.ok THEN Ret(self, opcode_byte)
  ELSE IF instruction.operand = <<>> THEN Ret(self, Ok(<<opcode_byte.v>>))
  ELSE encode_operand(self, instruction.operand[1], addr_mode, opcode_byte.v)

\* encode_instruction, `let addr_mode = ..`
addr_mode_of(instruction) ==
  IF instruction.operand # <<>>
  THEN get_addressing_mode(instruction.operand[1], instruction.opcode)
  ELSE "Implied"

\* Assembler::encode_instruction
encode_instruction(self, instruction) ==
  encode_with_mode(self, instruction, addr_mode_of(instruction),
                   get_opcode_byte(instruction.opcode, addr_mode_of(instruction)))

\* the push loops of process_directive: `for c in text.bytes()`
push_text(self, text) ==
  [self EXCEPT !.binary = @ \o Bytes(text), !.pc = @ + Len(text)]

RECURSIVE push_bytes(_, _, _)
\* the byte arm, one iteration after `parse_value(value_str)` returned p
push_byte(p, values, i) ==
  IF ~p.r.ok THEN p
  ELSE IF p.r.v > 255 THEN Ret(p.self, Err("SourceLineError"))
  ELSE push_bytes([p.self EXCEPT !.binary = Append(@, lo(p.r.v)), !.pc = @ + 1],
                  values, i + 1)

\* `for value_str in values` of the byte arm, from values[i] on
push_bytes(self, values, i) ==
  IF i > Len(values) THEN Ret(self, Ok(<<>>))
  ELSE push_byte(parse_value(self, values[i], 0), values, i)

RECURSIVE push_words(_, _, _)
\* push_word pushing the high byte first
push_word_high_first(p, values, i) ==
  IF ~p.r.ok THEN p
  ELSE IF p.r.v > 65535 THEN Ret(p.self, Err("SourceLineError"))
  ELSE push_words([p.self EXCEPT !.binary = @ \o <<hi(p.r.v), lo(p.r.v)>>,
                                 !.pc = @ + 2],
                  values, i + 1)

\* the word arm, one iteration after `parse_value(value_str)` returned p
push_word(p, values, i) ==
  IF ~p.r.ok THEN p
  ELSE IF p.r.v > 65535 THEN Ret(p.self, Err("SourceLineError"))
  ELSE push_words([p.self EXCEPT !.binary = @ \o <<lo(p.r.v), hi(p.r.v)>>,
                                 !.pc = @ + 2],
                  values, i + 1)

\* `for value_str in values` of the word arm, from values[i] on
push_words(self, values, i) ==
  IF i > Len(values) THEN Ret(self, Ok(<<>>))
  ELSE push_word(parse_value(self, values[i], 0), values, i)

\* directive.value.split(',').map(|v| v.trim()).collect()
split_values(value) ==
  [i \in 1..Len(split(value, ",")) |-> trim(split(value, ",")[i])]

\* the org arm after `parse_value(&directive.value)` returned p
set_origin(p) ==
  IF ~p.r.ok THEN p
  ELSE Ret([p.self EXCEPT !.origin = p.r.v, !.pc = p.r.v], Ok(<<>>))

\* the text of a directive value between its quotes
unquote(self, value) ==
  IF Len(value) < 2 THEN Ret(self, Err("Panic"))
  ELSE Ret(push_text(self, Slice(value, 1, Len(value) - 1)), Ok(<<>>))

\* Assembler::process_directive
process_directive(self, directive) ==
  CASE directive.name = <<"o", "r", "g">> ->
         set_origin(parse_value(self, directive.value, 0))
    [] directive.name \in {<<"b", "y", "t", "e">>, <<"d", "b">>} ->
         IF starts_with(directive.value, <<"\"">>) /\ ends_with(directive.value, <<"\"">>)
         THEN unquote(self, directive.value)
         ELSE push_bytes(self, split_values(directive.value), 1)
    [] directive.name \in {<<"w", "o", "r", "d">>, <<"d", "w">>} ->
         push_words(self, split_values(directive.value), 1)
    [] directive.name \in {<<"t", "e", "x", "t">>, <<"a", "s", "c", "i", "i">>} ->
         IF starts_with(directive.value, <<"\"">>) /\ ends_with(directive.value, <<"\"">>)
         THEN unquote(self, directive.value)
         ELSE Ret(push_text(self, directive.value), Ok(<<>>))
    [] OTHER -> Ret(self, Err("UnknownDirective"))

RECURSIVE resolve_labels_directives(_, _, _)
\* resolve_labels, the org arm after `parse_value(&directive.value)` returned p
resolve_labels_org(p, directives, i) ==
  IF ~p.r.ok THEN p
  ELSE resolve_labels_directives([p.self EXCEPT !.origin = p.r.v, !.pc = p.r.v],
                                 directives, i + 1)

\* resolve_labels, `for directive in ast.directives()`, from directives[i] on
resolve_labels_directives(self, directives, i) ==
  IF i > Len(directives) THEN Ret(self, Ok(<<>>))
  ELSE IF directives[i].name = <<"o", "r", "g">>
  THEN resolve_labels_org(parse_value(self, directives[i].value, 0), directives, i)
  ELSE resolve_labels_directives(self, directives, i + 1)

\* resolve_labels, `for (name, _label) in ast.labels()`: every name is
\* inserted with the same self.pc, so the iteration order does not matter
resolve_labels_labels(self, names) ==
  [self EXCEPT !.labels =
     [n \in (DOMAIN self.labels) \cup names |->
        IF n \in names THEN self.pc ELSE self.labels[n]]]

\* resolve_labels, `for instruction in ast.instructions()`: the value of
\* `size` in each iteration
sizes(instructions) ==
  [i \in 1..Len(instructions) |-> instruction_size(instructions[i])]

RECURSIVE Sum(_, _)
Sum(seq, i) == IF i > Len(seq) THEN 0 ELSE seq[i] + Sum(seq, i + 1)

\* resolve_labels after the directive loop returned d
resolve_labels_rest(d, ast) ==
  IF ~d.r.ok THEN [self |-> d.self, r |-> d.r, sizes |-> <<>>]
  ELSE [self  |-> [resolve_labels_labels(d.self, ast.labels)
                     EXCEPT !.pc = @ + Sum(sizes(ast.instructions), 1)],
        r     |-> Ok(<<>>),
        sizes |-> sizes(ast.instructions)]

\* Assembler::resolve_labels; sizes reports the sizes that advanced pc
resolve_labels(self, ast) ==
  resolve_labels_rest(
    resolve_labels_directives([self EXCEPT !.pc = self.origin], ast.directives, 1),
    ast)

\* what one iteration of generate_code appended to self.binary:
\* the offset of its first byte and the number of its bytes
Chunk(before, after) ==
  [start |-> Len(before.binary), len |-> Len(after.binary) - Len(before.binary)]

RECURSIVE generate_code_directives(_, _, _, _)
\* generate_code, one iteration after `process_directive(directive)` returned p
generate_code_directive(self, p, directives, i, chunks) ==
  IF ~p.r.ok THEN [self |-> p.self, r |-> p.r, chunks |-> chunks]
  ELSE generate_code_directives(p.self, directives, i + 1,
                                Append(chunks, Chunk(self, p.self)))

\* generate_code, `for directive in ast.directives()`, from directives[i] on;
\* chunks reports what each completed iteration appended
generate_code_directives(self, directives, i, chunks) ==
  IF i > Len(directives) THEN [self |-> self, r |-> Ok(<<>>), chunks |-> chunks]
  ELSE generate_code_directive(self, process_directive(self, directives[i]),
                               directives, i, chunks)

\* generate_code, `for &byte in &opcode_bytes { push }; self.pc += len`
push_opcode_bytes(self, opcode_bytes) ==
  [self EXCEPT !.binary = @ \o opcode_bytes, !.pc = @ + Len(opcode_bytes)]

RECURSIVE generate_code_instructions(_, _, _, _)
\* generate_code, one iteration after `encode_instruction(instruction)` returned e
generate_code_instruction(self, e, instructions, i, chunks) ==
  IF ~e.r.ok THEN [self |-> e.self, r |-> e.r, chunks |-> chunks]
  ELSE generate_code_instructions(
         push_opcode_bytes(e.self, e.r.v), instructions, i + 1,
         Append(chunks, [start |-> Len(self.binary), len |-> Len(e.r.v)]))

\* generate_code, `while i < ast.instructions().len()`, from instructions[i] on
generate_code_instructions(self, instructions, i, chunks) ==
  IF i > Len(instructions) THEN [self |-> self, r |-> Ok(<<>>), chunks |-> chunks]
  ELSE generate_code_instruction(self, encode_instruction(self, instructions[i]),
                                 instructions, i, chunks)

\* generate_code after the instruction loop returned c
generate_code_result(d, c) ==
  [self |-> c.self, r |-> c.r, directives |-> d.chunks, instructions |-> c.chunks]

\* generate_code after the directive loop returned d
generate_code_rest(d, ast) ==
  IF ~d.r.ok
  THEN [self |-> d.self, r |-> d.r, directives |-> d.chunks, instructions |-> <<>>]
  ELSE generate_code_result(
         d, generate_code_instructions(d.self, ast.instructions, 1, <<>>))

\* generate_code_reset clearing the label table as well
generate_code_reset_labels(self) ==
  [self EXCEPT !.pc = self.origin, !.binary = <<>>, !.labels = <<>>]

\* generate_code, `self.pc = self.origin; self.binary = Vec::new();`
generate_code_reset(self) == [self EXCEPT !.pc = self.origin, !.binary = <<>>]

\* Assembler::generate_code
generate_code(self, ast) ==
  generate_code_rest(
    generate_code_directives(generate_code_reset(self), ast.directives, 1, <<>>),
    ast)

\* (addr as isize - current_pos as isize) as i8 as u8
as_u8(n) == n % 256

\* resolve_references, the relative arm: `if *pos + 1 < self.binary.len()`
patch_relative(self, pos, addr) ==
  IF pos + 1 < Len(self.binary)
  THEN [self EXCEPT !.binary[pos + 2] = as_u8(addr - (pos + 2))]
  ELSE self

\* resolve_references, the absolute arm: the byte at pos + 2
patch_high(self, pos, addr) ==
  IF pos + 2 < Len(self.binary)
  THEN [self EXCEPT !.binary[pos + 3] = hi(addr)]
  ELSE self

\* resolve_references, the absolute arm: the byte at pos + 1, then pos + 2
patch_absolute(self, pos, addr) ==
  patch_high(IF pos + 1 < Len(self.binary)
             THEN [self EXCEPT !.binary[pos + 2] = lo(addr)]
             ELSE self,
             pos, addr)

\* resolve_references, `for (pos, label, is_relative) in &self.unresolved_refs`,
\* from refs[i] = <<pos, label, is_relative>> on; remaining is remaining_refs
RECURSIVE resolve_references_loop(_, _, _, _)
resolve_references_loop(self, refs, i, remaining) ==
  IF i > Len(refs) THEN [self |-> self, r |-> Ok(<<>>), remaining |-> remaining]
  ELSE IF refs[i][2] \in DOMAIN self.labels
  THEN IF refs[i][1] >= Len(self.binary)
       THEN resolve_references_loop(self, refs, i + 1, remaining)
       ELSE IF refs[i][3]
       THEN IF \/ self.labels[refs[i][2]] - (refs[i][1] + 2) > 127
               \/ self.labels[refs[i][2]] - (refs[i][1] + 2) < -128
            THEN [self |-> self, r |-> Err("ValueOutOfRange"), remaining |-> remaining]
            ELSE resolve_references_loop(
                   patch_relative(self, refs[i][1], self.labels[refs[i][2]]),
                   refs, i + 1, remaining)
       ELSE resolve_references_loop(
              patch_absolute(self, refs[i][1], self.labels[refs[i][2]]),
              refs, i + 1, remaining)
  ELSE resolve_references_loop(self, refs, i + 1, Append(remaining, refs[i]))

\* resolve_references after the loop returned l
resolve_references_rest(l) ==
  IF ~l.r.ok THEN Ret(l.self, l.r)
  ELSE IF l.remaining # <<>>
  THEN Ret([l.self EXCEPT !.unresolved_refs = l.remaining], Err("UnknownLabel"))
  ELSE Ret([l.self EXCEPT !.unresolved_refs = l.remaining], Ok(<<>>))

\* Assembler::resolve_references
resolve_references(self) ==
  resolve_references_rest(resolve_references_loop(self, self.unresolved_refs, 1, <<>>))

RECURSIVE assemble_loop(_, _, _)
\* assemble, after `self.resolve_references()` returned p: the `?`, then the
\* loop with pass_count; passes counts the calls of resolve_references
assemble_pass(p, pass_count, passes) ==
  IF ~p.r.ok THEN [self |-> p.self, r |-> p.r, passes |-> passes]
  ELSE assemble_loop(p.self, pass_count, passes)

\* assemble, `while !self.unresolved_refs.is_empty() && pass_count < 5`,
\* then `Ok(self.binary.clone())`
assemble_loop(self, pass_count, passes) ==
  IF self.unresolved_refs # <<>> /\ pass_count < MaxPasses
  THEN assemble_pass(resolve_references(self), pass_count + 1, passes + 1)
  ELSE [self |-> self, r |-> Ok(self.binary), passes |-> passes]

\* assemble, from the third pass to the return
assemble_resolve(self) == assemble_pass(resolve_references(self), 1, 1)

\* assemble when the third pass and the loop returned p
assemble_resolved(p) == Ret(p.self, p.r)

\* assemble after `self.generate_code(ast)` returned g
assemble_generated(g) ==
  IF ~g.r.ok THEN Ret(g.self, g.r) ELSE assemble_resolved(assemble_resolve(g.self))

\* assemble after `self.resolve_labels(ast)` returned l
assemble_labelled(l, ast) ==
  IF ~l.r.ok THEN Ret(l.self, l.r) ELSE assemble_generated(generate_code(l.self, ast))

\* Assembler::assemble as one call: the Assembler it leaves and the Result it
\* returns
Assembler_assemble(self, ast) ==
  assemble_labelled(resolve_labels([self EXCEPT !.ast = ast], ast), ast)

\* the free function assemble: `Assembler::new().assemble(ast)`
assemble(ast) == Assembler_assemble(AssemblerNew, ast).r

(***************************************************************************)
(* The inputs: the items a source program is made of.                      *)
(***************************************************************************)
Str_skip == <<"s", "k", "i", "p">>
Str_start == <<"s", "t", "a", "r", "t">>
Str_FG == <<"F", "G">>

LabelNames == {Str_skip, Str_start}

\* .const FG 7 and the circular .const FG FG
ConstantDefs == {<<Str_FG, <<"7">>>>, <<Str_FG, Str_FG>>}

None == <<>>
Some(x) == <<x>>

InstructionMenu ==
  { Instruction("NOP", None),
    Instruction("LDA", Some(Operand("Immediate", Str_FG))),
    Instruction("LDA", Some(Operand("Address", <<"$", "1", "0">>))),
    Instruction("LDA", Some(Operand("Address", <<"1", "6">>))),
    Instruction("JMP", Some(Operand("Address", <<"$", "1", "0">>))),
    Instruction("JMP", Some(Operand("Address", Str_start))),
    Instruction("BNE", Some(Operand("Address", Str_skip))),
    Instruction("BNE", Some(Operand("Address", Str_FG))),
    Instruction("LDA", Some(Operand("IndexedX", <<"$", "0", "0", "1", "0">>))),
    Instruction("JMP", Some(Operand("Indirect", <<"$", "1", "0", "0", "0">>))),
    Instruction("LDA", Some(Operand("IndirectIndexed", <<"$", "1", "0">>))),
    Instruction("LDA", Some(Operand("Immediate", <<"$", "1", "0", "0">>))) }

LongText == <<"\"">> \o [i \in 1..TextLen |-> "x"] \o <<"\"">>

DirectiveMenu ==
  { Directive(<<"o", "r", "g">>, <<"0">>),
    Directive(<<"o", "r", "g">>, <<"$", "8", "0", "0", "0">>),
    Directive(<<"o", "r", "g">>, <<"$">>),
    Directive(<<"b", "y", "t", "e">>, <<"1", ",", "2", ",", "3">>),
    Directive(<<"t", "e", "x", "t">>, LongText),
    Directive(<<"f", "o", "r">>, <<>>),
    Directive(<<"c", "o", "n", "s", "t">>, <<"F", "G", " ", "7">>),
    Directive(<<"o", "r", "g">>, <<"$", "F", "F", "F", "F">>),
    Directive(<<"o", "r", "g">>, Str_start) }

(***************************************************************************)
(* The state.                                                              *)
(***************************************************************************)
VARIABLES
  src,              \* the source items in source order (the add_* calls made)
  ast,              \* the Ast the add_* calls have built
  phase,            \* position in Assembler::assemble
  pc, binary, labels, unresolved_refs, origin, self_ast,   \* the Assembler
  result,           \* what assemble returned
  pass1,            \* history: the sizes, pc and origin at the end of pass 1
  emitted,          \* history: the chunks pass 2 appended to binary
  raised,           \* history: the errors the passes returned, in order
  resolving,        \* history: the resolution passes run and the references
                    \* the first of them started with
  given,            \* the argument of a single function call, if one is made
  got               \* what that call returned

vars == <<src, ast, phase, pc, binary, labels, unresolved_refs, origin, self_ast,
          result, pass1, emitted, raised, resolving, given, got>>

\* the Assembler value
Self ==
  [pc |-> pc, binary |-> binary, labels |-> labels,
   unresolved_refs |-> unresolved_refs, origin |-> origin, ast |-> self_ast]

SetSelf(self) ==
  /\ pc' = self.pc
  /\ binary' = self.binary
  /\ labels' = self.labels
  /\ unresolved_refs' = self.unresolved_refs
  /\ origin' = self.origin
  /\ self_ast' = self.ast

NoResult == [status |-> "none", bytes |-> <<>>, err |-> "None"]

\* the source items
LabelItem(name) == [kind |-> "label", name |-> name, body |-> <<>>]
InstructionItem(instruction) == [kind |-> "instruction", name |-> <<>>, body |-> <<instruction>>]
DirectiveItem(directive) == [kind |-> "directive", name |-> <<>>, body |-> <<directive>>]
ConstantItem(name, value) == [kind |-> "constant", name |-> name, body |-> <<value>>]

InitAssembly ==
  /\ src = <<>>
  /\ ast = AstNew
  /\ phase = "build"
  /\ pc = AssemblerNew.pc
  /\ binary = AssemblerNew.binary
  /\ labels = AssemblerNew.labels
  /\ unresolved_refs = AssemblerNew.unresolved_refs
  /\ origin = AssemblerNew.origin
  /\ self_ast = AssemblerNew.ast
  /\ result = NoResult
  /\ pass1 = [sizes |-> <<>>, pc |-> 0, origin |-> 0]
  /\ emitted = [directives |-> <<>>, instructions |-> <<>>]
  /\ raised = <<>>
  /\ resolving = [passes |-> 0, refs |-> <<>>]

Init ==
  /\ InitAssembly
  /\ given = None
  /\ got = None

Building == phase = "build" /\ Len(src) < MaxLines

AssemblerUnchanged ==
  UNCHANGED <<phase, pc, binary, labels, unresolved_refs, origin, self_ast,
              result, pass1, emitted, raised, resolving, given, got>>

\* a label line: Ast::add_label
AddLabel ==
  /\ Building
  /\ \E name \in LabelNames :
       /\ ast' = add_label(ast, name)
       /\ src' = Append(src, LabelItem(name))
  /\ AssemblerUnchanged

\* an instruction line: Ast::add_instruction
AddInstruction ==
  /\ Building
  /\ \E instruction \in InstructionMenu :
       /\ ast' = add_instruction(ast, instruction)
       /\ src' = Append(src, InstructionItem(instruction))
  /\ AssemblerUnchanged

\* a directive line: Ast::add_directive
AddDirective ==
  /\ Building
  /\ \E directive \in DirectiveMenu :
       /\ ast' = add_directive(ast, directive)
       /\ src' = Append(src, DirectiveItem(directive))
  /\ AssemblerUnchanged

\* a constant definition: Ast::add_constant
AddConstant ==
  /\ Building
  /\ \E c \in ConstantDefs :
       /\ ast' = add_constant(ast, c[1], c[2])
       /\ src' = Append(src, ConstantItem(c[1], c[2]))
  /\ AssemblerUnchanged

\* a `?` that is missing: the Err result of a pass is dropped
question_dropped(r) == FALSE

\* the `?` after a pass: an Err result is returned from assemble at once
question(r) == ~r.ok

\* what assemble returns
Returned(r) ==
  IF r.ok THEN [status |-> "Ok", bytes |-> r.v, err |-> "None"]
  ELSE [status |-> "Err", bytes |-> <<>>, err |-> r.err]

Raise(r) == IF r.ok THEN raised ELSE Append(raised, r.err)

\* assemble after `self.resolve_labels(ast)` returned p
Pass1Returns(p) ==
  /\ SetSelf(p.self)
  /\ pass1' = [sizes |-> p.sizes, pc |-> p.self.pc, origin |-> p.self.origin]
  /\ raised' = Raise(p.r)
  /\ IF question(p.r)
     THEN phase' = "done" /\ result' = Returned(p.r)
     ELSE phase' = "generate_code" /\ UNCHANGED result

\* assemble, lines 112-115: save the AST, first pass
AssemblePass1 ==
  /\ phase = "build"
  /\ Pass1Returns(resolve_labels([Self EXCEPT !.ast = ast], ast))
  /\ UNCHANGED <<src, ast, emitted, resolving, given, got>>

\* assemble after `self.generate_code(ast)` returned p
Pass2Returns(p) ==
  /\ SetSelf(p.self)
  /\ emitted' = [directives |-> p.directives, instructions |-> p.instructions]
  /\ raised' = Raise(p.r)
  /\ IF question(p.r)
     THEN phase' = "done" /\ result' = Returned(p.r)
     ELSE phase' = "resolve_references" /\ UNCHANGED result

\* assemble, line 118: second pass
AssemblePass2 ==
  /\ phase = "generate_code"
  /\ Pass2Returns(generate_code(Self, ast))
  /\ UNCHANGED <<src, ast, pass1, resolving, given, got>>

\* assemble after the resolution passes returned p
Pass3Returns(p) ==
  /\ SetSelf(p.self)
  /\ resolving' = [passes |-> p.passes, refs |-> unresolved_refs]
  /\ raised' = Raise(p.r)
  /\ phase' = "done"
  /\ result' = Returned(p.r)

\* assemble, lines 121-133: third pass, further passes, return
AssemblePass3 ==
  /\ phase = "resolve_references"
  /\ Pass3Returns(assemble_resolve(Self))
  /\ UNCHANGED <<src, ast, pass1, emitted, given, got>>

Next ==
  \/ AddLabel
  \/ AddInstruction
  \/ AddDirective
  \/ AddConstant
  \/ AssemblePass1
  \/ AssemblePass2
  \/ AssemblePass3

Spec == Init /\ [][Next]_vars

(***************************************************************************)
(* Single calls of the functions: the argument is drawn from a bounded     *)
(* set, one call is made, and the assembly variables stay as constructed.  *)
(***************************************************************************)
Call(fn, arg) == Some([fn |-> fn, arg |-> arg])

Text_10 == <<"$", "1", "0">>
Text_1000 == <<"$", "1", "0", "0", "0">>

\* expressions free of `#`, `(`, `)` and `,`
Expressions == {Text_10, Text_1000, Str_FG, <<"A">>, <<"1", "6">>}

OperandKinds ==
  {"Immediate", "Address", "IndexedX", "IndexedY", "Indirect",
   "IndexedIndirect", "IndirectIndexed"}

\* the surface forms of an operand, e an expression
SurfaceForms(e) ==
  { <<"#">> \o e, e, e \o <<",", "X">>, e \o <<",", "x">>, e \o <<",", "Y">>,
    e \o <<",", "y">>, <<"(">> \o e \o <<")">>,
    <<"(">> \o e \o <<",", "X", ")">>, <<"(">> \o e \o <<",", "x", ")">>,
    <<"(">> \o e \o <<")", ",", "Y">>, <<"(">> \o e \o <<")", ",", "y">>,
    e \o <<")", ",", "Y">> }

OperandTexts == UNION {SurfaceForms(e) : e \in Expressions}

Operands == {Operand(kind, e) : kind \in OperandKinds, e \in Expressions}

\* an absent operand and every variant over the expressions
OperandForms == {None} \cup {Some(operand) : operand \in Operands}

\* encode_instruction and instruction_size on a fresh Assembler
Encoded(instruction) ==
  [mode |-> addr_mode_of(instruction),
   r    |-> encode_instruction(AssemblerNew, instruction).r,
   size |-> instruction_size(instruction)]

(***************************************************************************)
(* The structured parser: RusmParser builds the AST from the tree of Pairs *)
(* the grammar produced. A Pair is its rule, the text it spans and its     *)
(* inner Pairs.                                                            *)
(***************************************************************************)
Pair(rule, str, inner) == [rule |-> rule, str |-> str, inner |-> inner]

\* the rules the parser functions name
Rules ==
  {"program", "label", "instruction", "comment", "label_name", "op", "directive",
   "opcode", "operand", "immediate", "indexed_x", "indexed_y", "indirect",
   "indexed_indirect", "indirect_indexed", "abs_zp", "expr", "bin_expr", "lexpr",
   "binop", "literal_expr", "ref_expr", "paren_expr", "lower_expr", "upper_expr",
   "number_literal", "chr_literal", "identifier", "hex_literal", "bin_literal",
   "dec_literal", "dir_name", "dir_arg"}

\* unexpected_rule!
unexpected_rule == Err("InvalidSyntax")

\* a failed `expect` of a builder: the thread panics
Panic == Err("panic")

\* enum Opcode
OpcodeVariants ==
  {<<"L", "D", "A">>, <<"L", "D", "X">>, <<"L", "D", "Y">>, <<"S", "T", "A">>,
   <<"S", "T", "X">>, <<"S", "T", "Y">>, <<"T", "A", "X">>, <<"T", "A", "Y">>,
   <<"T", "S", "X">>, <<"T", "X", "A">>, <<"T", "X", "S">>, <<"T", "Y", "A">>,
   <<"P", "H", "A">>, <<"P", "H", "P">>, <<"P", "L", "A">>, <<"P", "L", "P">>,
   <<"A", "N", "D">>, <<"E", "O", "R">>, <<"O", "R", "A">>, <<"B", "I", "T">>,
   <<"A", "D", "C">>, <<"S", "B", "C">>, <<"C", "M", "P">>, <<"C", "P", "X">>,
   <<"C", "P", "Y">>, <<"I", "N", "C">>, <<"I", "N", "X">>, <<"I", "N", "Y">>,
   <<"D", "E", "C">>, <<"D", "E", "X">>, <<"D", "E", "Y">>, <<"A", "S", "L">>,
   <<"L", "S", "R">>, <<"R", "O", "L">>, <<"R", "O", "R">>, <<"J", "M", "P">>,
   <<"J", "S", "R">>, <<"R", "T", "S">>, <<"R", "T", "I">>, <<"B", "C", "C">>,
   <<"B", "C", "S">>, <<"B", "E", "Q">>, <<"B", "M", "I">>, <<"B", "N", "E">>,
   <<"B", "P", "L">>, <<"B", "V", "C">>, <<"B", "V", "S">>, <<"C", "L", "C">>,
   <<"C", "L", "D">>, <<"C", "L", "I">>, <<"C", "L", "V">>, <<"S", "E", "C">>,
   <<"S", "E", "D">>, <<"S", "E", "I">>, <<"N", "O", "P">>, <<"S", "L", "O">>,
   <<"R", "L", "A">>, <<"S", "R", "E">>, <<"R", "R", "A">>, <<"S", "A", "X">>,
   <<"L", "A", "X">>, <<"D", "C", "P">>, <<"I", "S", "C">>, <<"H", "C", "F">>}

\* char::to_ascii_lowercase
to_ascii_lowercase(c) ==
  CASE c = "A" -> "a" [] c = "B" -> "b" [] c = "C" -> "c" [] c = "D" -> "d"
    [] c = "E" -> "e" [] c = "F" -> "f" [] c = "G" -> "g" [] c = "H" -> "h"
    [] c = "I" -> "i" [] c = "J" -> "j" [] c = "K" -> "k" [] c = "L" -> "l"
    [] c = "M" -> "m" [] c = "N" -> "n" [] c = "O" -> "o" [] c = "P" -> "p"
    [] c = "Q" -> "q" [] c = "R" -> "r" [] c = "S" -> "s" [] c = "T" -> "t"
    [] c = "U" -> "u" [] c = "V" -> "v" [] c = "W" -> "w" [] c = "X" -> "x"
    [] c = "Y" -> "y" [] c = "Z" -> "z" [] OTHER -> c

\* str::to_lowercase
to_lowercase(s) == [i \in 1..Len(s) |-> to_ascii_lowercase(s[i])]

\* Opcode::from_str, derived: the variant whose name is the text, compared
\* without regard to case; FromStrError becomes InvalidSyntax
Opcode_from_str(s) ==
  IF \E name \in OpcodeVariants : to_lowercase(name) = to_lowercase(s)
  THEN Ok(CHOOSE name \in OpcodeVariants : to_lowercase(name) = to_lowercase(s))
  ELSE Err("InvalidSyntax")

\* RusmParser::parse_addressing_mode with indexed_y read as AbsoluteX
parse_addressing_mode_y_as_x(pair) ==
  CASE pair.rule = "immediate"        -> Ok("Immediate")
    [] pair.rule = "indexed_x"        -> Ok("AbsoluteX")
    [] pair.rule = "indexed_y"        -> Ok("AbsoluteX")
    [] pair.rule = "indirect"         -> Ok("Indirect")
    [] pair.rule = "indexed_indirect" -> Ok("IndexedIndirect")
    [] pair.rule = "indirect_indexed" -> Ok("IndirectIndexed")
    [] pair.rule = "abs_zp"           -> Ok("Absolute")
    [] OTHER                          -> unexpected_rule

\* RusmParser::parse_addressing_mode
parse_addressing_mode(pair) ==
  CASE pair.rule = "immediate"        -> Ok("Immediate")
    [] pair.rule = "indexed_x"        -> Ok("AbsoluteX")
    [] pair.rule = "indexed_y"        -> Ok("AbsoluteY")
    [] pair.rule = "indirect"         -> Ok("Indirect")
    [] pair.rule = "indexed_indirect" -> Ok("IndexedIndirect")
    [] pair.rule = "indirect_indexed" -> Ok("IndirectIndexed")
    [] pair.rule = "abs_zp"           -> Ok("Absolute")
    [] OTHER                          -> unexpected_rule

\* `Ok(Variant(x?))`
Wrap(tag, x) == IF x.ok THEN Ok(<<tag, x.v>>) ELSE x

\* RusmParser::parse_number_literal: decided by the first Pair
parse_number_literal(pairs) ==
  IF pairs = <<>> THEN Err("InvalidSyntax")
  ELSE CASE pairs[1].rule = "hex_literal" -> Ok(<<"HexLiteral", pairs[1].str>>)
         [] pairs[1].rule = "bin_literal" -> Ok(<<"BinLiteral", pairs[1].str>>)
         [] pairs[1].rule = "dec_literal" -> Ok(<<"DecLiteral", pairs[1].str>>)
         [] OTHER                         -> unexpected_rule

\* RusmParser::parse_literal_expr
parse_literal_expr(pairs) ==
  IF pairs = <<>> THEN Err("InvalidSyntax")
  ELSE CASE pairs[1].rule = "number_literal" ->
              Wrap("NumberLiteral", parse_number_literal(pairs[1].inner))
         [] pairs[1].rule = "chr_literal" -> Ok(<<"CharLiteral", pairs[1].str>>)
         [] OTHER -> unexpected_rule

\* RusmParser::parse_ref_expr
parse_ref_expr(pairs) ==
  IF pairs = <<>> THEN Err("InvalidSyntax")
  ELSE CASE pairs[1].rule = "label_name" -> Ok(<<"LabelRef", pairs[1].str>>)
         [] pairs[1].rule = "identifier" -> Ok(<<"SymbolRef", pairs[1].str>>)
         [] OTHER -> unexpected_rule

RECURSIVE parse_expr(_), parse_binary_expr_loop(_, _, _), parse_lexpr(_)

\* BinaryExprBuilder::default
BinaryExprBuilder == [lhs |-> None, op |-> None, rhs |-> None]

\* BinaryExprBuilder::build
BinaryExpr_build(bin) ==
  IF bin.lhs = None \/ bin.op = None \/ bin.rhs = None THEN Panic
  ELSE Ok(<<bin.lhs[1], bin.op[1], bin.rhs[1]>>)

\* parse_binary_expr, the lexpr arm after `parse_lexpr(..)` returned x
parse_binary_expr_lhs(x, pairs, i, bin) ==
  IF ~x.ok THEN x
  ELSE parse_binary_expr_loop(pairs, i + 1, [bin EXCEPT !.lhs = Some(<<"L", x.v>>)])

\* parse_binary_expr, the expr arm after `parse_expr(..)` returned x
parse_binary_expr_rhs(x, pairs, i, bin) ==
  IF ~x.ok THEN x
  ELSE parse_binary_expr_loop(pairs, i + 1, [bin EXCEPT !.rhs = Some(x.v)])

\* parse_binary_expr, `for t in pairs`, from pairs[i] on
parse_binary_expr_loop(pairs, i, bin) ==
  IF i > Len(pairs) THEN BinaryExpr_build(bin)
  ELSE CASE pairs[i].rule = "lexpr" ->
              parse_binary_expr_lhs(parse_lexpr(pairs[i].inner), pairs, i, bin)
         [] pairs[i].rule = "binop" ->
              parse_binary_expr_loop(pairs, i + 1, [bin EXCEPT !.op = Some(pairs[i].str)])
         [] pairs[i].rule = "expr" ->
              parse_binary_expr_rhs(parse_expr(pairs[i].inner), pairs, i, bin)
         [] OTHER -> unexpected_rule

\* RusmParser::parse_binary_expr
parse_binary_expr(pairs) == parse_binary_expr_loop(pairs, 1, BinaryExprBuilder)

\* RusmParser::parse_expr
parse_expr(pairs) ==
  IF pairs = <<>> THEN Err("InvalidSyntax")
  ELSE CASE pairs[1].rule = "expr"     -> parse_expr(pairs[1].inner)
         [] pairs[1].rule = "bin_expr" -> Wrap("Binary", parse_binary_expr(pairs[1].inner))
         [] pairs[1].rule = "lexpr"    -> Wrap("L", parse_lexpr(pairs[1].inner))
         [] OTHER -> unexpected_rule

\* RusmParser::parse_lexpr
parse_lexpr(pairs) ==
  IF pairs = <<>> THEN Err("InvalidSyntax")
  ELSE CASE pairs[1].rule = "literal_expr" ->
              Wrap("LiteralExpr", parse_literal_expr(pairs[1].inner))
         [] pairs[1].rule = "ref_expr" -> Wrap("RefExpr", parse_ref_expr(pairs[1].inner))
         [] pairs[1].rule = "paren_expr" -> Wrap("ParenExpr", parse_expr(pairs[1].inner))
         [] pairs[1].rule = "lower_expr" -> Wrap("LowerExpr", parse_expr(pairs[1].inner))
         [] pairs[1].rule = "upper_expr" -> Wrap("UpperExpr", parse_expr(pairs[1].inner))
         [] OTHER -> unexpected_rule

\* parse_operand after `parse_addressing_mode(t.clone())` returned addrmode:
\* `Operand::from((addrmode, parse_expr(t.into_inner())?))`
parse_operand_expr(addrmode, x) ==
  IF ~addrmode.ok THEN addrmode
  ELSE IF ~x.ok THEN x
  ELSE Ok(<<addrmode.v, x.v>>)

\* RusmParser::parse_operand
parse_operand(pairs) ==
  IF Len(pairs) # 1 THEN Err("InvalidSyntax")
  ELSE parse_operand_expr(parse_addressing_mode(pairs[1]), parse_expr(pairs[1].inner))

\* OpBuilder::default
OpBuilder == [opcode |-> None, operand |-> None]

\* OpBuilder::build
Op_build(op) == IF op.opcode = None THEN Panic ELSE Ok(<<op.opcode[1], op.operand>>)

RECURSIVE parse_op_loop(_, _, _)
\* parse_op, one iteration after the arm's `?` expression returned x
parse_op_set(x, field, pairs, i, op) ==
  IF ~x.ok THEN x
  ELSE parse_op_loop(pairs, i + 1, [op EXCEPT ![field] = Some(x.v)])

\* parse_op, `for t in pairs.clone()`, from pairs[i] on
parse_op_loop(pairs, i, op) ==
  IF i > Len(pairs) THEN Op_build(op)
  ELSE CASE pairs[i].rule = "opcode" ->
              parse_op_set(Opcode_from_str(pairs[i].str), "opcode", pairs, i, op)
         [] pairs[i].rule = "operand" ->
              parse_op_set(parse_operand(pairs[i].inner), "operand", pairs, i, op)
         [] OTHER -> unexpected_rule

\* RusmParser::parse_op
parse_op(pairs) == parse_op_loop(pairs, 1, OpBuilder)

Str_SCREEN_BASE == <<"S", "C", "R", "E", "E", "N", "_", "B", "A", "S", "E">>
Str_400 == <<"$", "4", "0", "0">>

\* the trees of the expressions SCREEN_BASE, $400 and SCREEN_BASE+$400
RefTree ==
  Pair("lexpr", Str_SCREEN_BASE,
       <<Pair("ref_expr", Str_SCREEN_BASE,
              <<Pair("identifier", Str_SCREEN_BASE, <<>>)>>)>>)

HexTree ==
  Pair("lexpr", Str_400,
       <<Pair("literal_expr", Str_400,
              <<Pair("number_literal", Str_400,
                     <<Pair("hex_literal", Str_400, <<>>)>>)>>)>>)

BinTree ==
  Pair("bin_expr", Str_SCREEN_BASE \o <<"+">> \o Str_400,
       <<RefTree, Pair("binop", <<"+">>, <<>>), Pair("expr", Str_400, <<HexTree>>)>>)

ExprTrees == {RefTree, HexTree, BinTree, Pair("expr", BinTree.str, <<BinTree>>)}

\* the inner Pairs of an operand: one Pair of any rule over an expression,
\* none, and two
OperandPairs ==
  {<<Pair(rule, e.str, <<e>>)>> : rule \in Rules, e \in ExprTrees}
  \cup {<<>>}
  \cup {<<Pair(rule, e.str, <<e>>), Pair(rule, e.str, <<e>>)>> :
          rule \in {"immediate", "abs_zp"}, e \in {HexTree}}

\* the Pairs of `sta SCREEN_BASE+$400,x` under the rule op
ExampleOp ==
  <<Pair("opcode", <<"s", "t", "a">>, <<>>),
    Pair("operand", BinTree.str \o <<",", "x">>,
         <<Pair("indexed_x", BinTree.str \o <<",", "x">>,
                <<Pair("expr", BinTree.str, <<BinTree>>)>>)>>)>>

\* the Pairs of an op: an opcode, alone or followed by an operand
OpPairs ==
  {<<Pair("opcode", text, <<>>)>> : text \in {<<"s", "t", "a">>, <<"N", "O", "P">>, <<"x", "y", "z">>}}
  \cup
  {<<Pair("opcode", text, <<>>), Pair("operand", operand[1].str, operand)>> :
     text \in {<<"s", "t", "a">>, <<"L", "d", "A">>, <<"x", "y", "z">>},
     operand \in {o \in OperandPairs : Len(o) = 1 /\ o[1].inner[1] \in {HexTree, BinTree}}}
  \cup {ExampleOp}

\* 16-bit literals
WordTexts ==
  {<<"$", "A", "B", "C", "D">>, <<"$", "1", "2", "3", "4">>, <<"$", "0", "0", "F", "F">>,
   <<"2", "5", "6">>, <<"%", "1", "0", "0", "0", "0", "0", "0", "0", "1">>}

\* instructions with a 16-bit operand
WordInstructions ==
  {instruction \in
     {Instruction(opcode, Some(Operand(kind, w))) :
        opcode \in {"LDA", "STA", "JMP"},
        kind \in {"Address", "IndexedX", "IndexedY", "Indirect"},
        w \in WordTexts} :
     <<instruction.opcode, addr_mode_of(instruction)>> \in DOMAIN OPCODE_TABLE}

\* .word and .dw directives with one element and with two
WordDirectives ==
  {Directive(name, w) : name \in {<<"w", "o", "r", "d">>, <<"d", "w">>}, w \in WordTexts}
  \cup
  {Directive(name, w1 \o <<",", " ">> \o w2) :
     name \in {<<"w", "o", "r", "d">>, <<"d", "w">>}, w1 \in WordTexts, w2 \in WordTexts}

\* the programs assembled one after the other by one Assembler
AstMenu ==
  {[AstNew EXCEPT !.directives = directives, !.labels = names,
                  !.instructions = instructions] :
     directives \in {<<>>, <<Directive(<<"o", "r", "g">>, <<"0">>)>>,
                     <<Directive(<<"o", "r", "g">>, <<"$", "1", "0">>)>>},
     names \in {{}, {Str_FG}, {Str_start}},
     instructions \in
       {<<>>,
        <<Instruction("LDA", Some(Operand("Immediate", Str_FG))), Instruction("NOP", None)>>,
        <<Instruction("JMP", Some(Operand("Address", Str_start)))>>,
        <<Instruction("BNE", Some(Operand("Address", Str_start)))>>}}

FunctionsUnchanged ==
  UNCHANGED <<src, ast, phase, pc, binary, labels, unresolved_refs, origin,
              self_ast, result, pass1, emitted, raised, resolving, given>>

Calling(fn) == given # None /\ got = None /\ given[1].fn = fn

\* Operand::parse(s)
CallParse ==
  /\ Calling("Operand::parse")
  /\ got' = Some(Operand_parse(given[1].arg))
  /\ FunctionsUnchanged

\* Operand::parse(&operand.to_string())
CallDisplayParse ==
  /\ Calling("Operand::to_string")
  /\ got' = Some(Operand_parse(Display(given[1].arg)))
  /\ FunctionsUnchanged

\* encode_instruction for the opcode of a table key, once for each operand form
CallEncode ==
  /\ Calling("encode_instruction")
  /\ got' = Some([form \in OperandForms |->
                    Encoded(Instruction(given[1].arg[1], form))])
  /\ FunctionsUnchanged

\* encode_instruction(instruction) on a fresh Assembler
CallEncodeWord ==
  /\ Calling("encode_instruction(word)")
  /\ got' = Some(Encoded(given[1].arg))
  /\ FunctionsUnchanged

\* process_directive(directive) on a fresh Assembler
CallProcessDirective ==
  /\ Calling("process_directive")
  /\ got' = Some(process_directive(AssemblerNew, given[1].arg))
  /\ FunctionsUnchanged

\* assembler.assemble(&first) then assembler.assemble(&second) on one
\* Assembler, and assemble(&second) on a fresh one
TwoCalls(first, second) ==
  [first |-> first, second |-> Assembler_assemble(first.self, second),
   fresh |-> assemble(second)]

CallAssembleTwice ==
  /\ Calling("Assembler::assemble")
  /\ got' = Some(TwoCalls(Assembler_assemble(AssemblerNew, given[1].arg[1]), given[1].arg[2]))
  /\ FunctionsUnchanged

\* RusmParser::parse_operand(pairs)
CallParseOperand ==
  /\ Calling("RusmParser::parse_operand")
  /\ got' = Some(parse_operand(given[1].arg))
  /\ FunctionsUnchanged

\* RusmParser::parse_op(pairs)
CallParseOp ==
  /\ Calling("RusmParser::parse_op")
  /\ got' = Some(parse_op(given[1].arg))
  /\ FunctionsUnchanged

FunctionsInit ==
  /\ InitAssembly
  /\ got = None
  /\ \/ \E s \in OperandTexts : given = Call("Operand::parse", s)
     \/ \E operand \in Operands : given = Call("Operand::to_string", operand)
     \/ \E key \in DOMAIN OPCODE_TABLE : given = Call("encode_instruction", key)
     \/ \E instruction \in WordInstructions :
          given = Call("encode_instruction(word)", instruction)
     \/ \E directive \in WordDirectives : given = Call("process_directive", directive)
     \/ \E pairs \in OperandPairs : given = Call("RusmParser::parse_operand", pairs)
     \/ \E pairs \in OpPairs : given = Call("RusmParser::parse_op", pairs)
     \/ \E first \in AstMenu, second \in AstMenu :
          given = Call("Assembler::assemble", <<first, second>>)

FunctionsNext ==
  \/ CallParse
  \/ CallDisplayParse
  \/ CallEncode
  \/ CallEncodeWord
  \/ CallProcessDirective
  \/ CallAssembleTwice
  \/ CallParseOperand
  \/ CallParseOp

Functions == FunctionsInit /\ [][FunctionsNext]_vars

(***************************************************************************)
(* The layout the source text prescribes, used to state the claims: an     *)
(* instruction occupies its size, a data directive the length of its data, *)
(* and a line stands at the origin plus what the lines before it occupy.   *)
(***************************************************************************)
IsOrg(item) == item.kind = "directive" /\ item.body[1].name = <<"o", "r", "g">>

IsData(directive) ==
  directive.name \in {<<"b", "y", "t", "e">>, <<"d", "b">>, <<"w", "o", "r", "d">>,
                      <<"d", "w">>, <<"t", "e", "x", "t">>, <<"a", "s", "c", "i", "i">>}

IsQuoted(value) ==
  Len(value) >= 2 /\ starts_with(value, <<"\"">>) /\ ends_with(value, <<"\"">>)

DataLength(directive) ==
  CASE directive.name \in {<<"b", "y", "t", "e">>, <<"d", "b">>} ->
         IF IsQuoted(directive.value) THEN Len(directive.value) - 2
         ELSE Len(split(directive.value, ","))
    [] directive.name \in {<<"w", "o", "r", "d">>, <<"d", "w">>} ->
         2 * Len(split(directive.value, ","))
    [] directive.name \in {<<"t", "e", "x", "t">>, <<"a", "s", "c", "i", "i">>} ->
         IF IsQuoted(directive.value) THEN Len(directive.value) - 2
         ELSE Len(directive.value)
    [] OTHER -> 0

IsLiteral(expr) ==
  \/ starts_with(expr, <<"$">>)
  \/ starts_with(expr, <<"%">>)
  \/ starts_with(expr, <<"\"">>)
  \/ \A i \in 1..Len(expr) : is_digit(expr[i], 10)

\* the value of a numeric literal (0 for a malformed one)
LiteralValue(expr) ==
  LET p == parse_value(AssemblerNew, expr, 0) IN IF p.r.ok THEN p.r.v ELSE 0

\* the bytes source item i occupies
LineSize(i) ==
  CASE src[i].kind = "instruction" -> instruction_size(src[i].body[1])
    [] src[i].kind = "directive" -> DataLength(src[i].body[1])
    [] OTHER -> 0

RECURSIVE LineOffset(_)
\* the bytes the source items before item i occupy
LineOffset(i) == IF i = 1 THEN 0 ELSE LineOffset(i - 1) + LineSize(i - 1)

\* the .org directives, if any, stand before every label and every line
\* that occupies bytes: the program has one origin
OneOrigin ==
  \A i \in 1..Len(src) :
    IsOrg(src[i]) => \A j \in 1..(i - 1) : IsOrg(src[j]) \/ src[j].kind = "constant"

\* the error kinds assemble can end with
ErrorKinds ==
  {"UnknownOpcode", "InvalidAddressingMode", "UnknownLabel", "UnknownDirective",
   "ValueOutOfRange", "Parse", "SymbolResolution", "ForwardReference",
   "DuplicateLabel", "InvalidExpression", "SourceLineError",
   "Panic", "StackOverflow"}

\* the errors that report a fault other than the one of kind `kind`
OtherErrors(kind) == ErrorKinds \ {kind}

Items(kind) == {i \in 1..Len(src) : src[i].kind = kind}

\* the lines that define the label `name`
Definitions(name) == {i \in Items("label") : src[i].name = name}

\* source item i is the n-th instruction (directive) of the program
IndexOfKind(i) == Cardinality({j \in 1..i : src[j].kind = src[i].kind})

\* the branch instructions whose operand names a label defined exactly once
Branches ==
  {i \in Items("instruction") :
     /\ src[i].body[1].opcode \in BranchOpcodes
     /\ src[i].body[1].operand # <<>>
     /\ src[i].body[1].operand[1].kind = "Address"
     /\ Cardinality(Definitions(src[i].body[1].operand[1].expr)) = 1}

Target(i) == CHOOSE j \in Definitions(src[i].body[1].operand[1].expr) : TRUE

\* the distance of branch i: target minus the address following the branch
Distance(i) == LineOffset(Target(i)) - (LineOffset(i) + 2)

\* what pass 2 appended for source item i, an instruction or a directive
ChunkOf(i) ==
  IF src[i].kind = "instruction" THEN emitted.instructions[IndexOfKind(i)]
  ELSE emitted.directives[IndexOfKind(i)]

Emits(i) ==
  \/ src[i].kind = "instruction"
  \/ src[i].kind = "directive" /\ IsData(src[i].body[1])

\* the names the instructions and data directives refer to
ReferencedNames ==
  {src[i].body[1].operand[1].expr : i \in
     {j \in Items("instruction") :
        /\ src[j].body[1].operand # <<>>
        /\ ~IsLiteral(src[j].body[1].operand[1].expr)}}
  \cup
  UNION {{v \in {split_values(src[i].body[1].value)[k] :
                   k \in 1..Len(split_values(src[i].body[1].value))} : ~IsLiteral(v)} :
         i \in {j \in Items("directive") :
                  /\ src[j].body[1].name \in {<<"b", "y", "t", "e">>, <<"d", "b">>,
                                              <<"w", "o", "r", "d">>, <<"d", "w">>}
                  /\ ~IsQuoted(src[j].body[1].value)}}

DefinedNames ==
  {src[i].name : i \in Items("label")} \cup {src[i].name : i \in Items("constant")}

(***************************************************************************)
(* The claims.                                                             *)
(***************************************************************************)

\* C1: after pass 1 (resolve_labels) every label is bound to the address of
\* its own line: the origin plus the sizes of the instructions and data of
\* the lines that precede it in source order.
C1_LabelBoundToOwnLine ==
  (phase = "generate_code" /\ OneOrigin) =>
    \A i \in Items("label") :
      Cardinality(Definitions(src[i].name)) = 1 =>
        /\ src[i].name \in DOMAIN labels
        /\ labels[src[i].name] = origin + LineOffset(i)

\* C2: in a successful assembly the operand byte of every branch to a
\* defined label is the distance (target minus the address after the 2-byte
\* branch) as a signed 8-bit value.
C2_BranchOperandIsDistance ==
  (result.status = "Ok" /\ OneOrigin) =>
    \A i \in Branches :
      result.bytes[ChunkOf(i).start + 2] = as_u8(Distance(i))

\* C3: a program whose one branch goes to a defined label at distance d
\* assembles iff -128 <= d <= 127: outside that range assemble returns
\* ValueOutOfRange (unless another error is reported first), inside it
\* assemble does not.
C3_BranchRange ==
  (phase = "done" /\ OneOrigin) =>
    \A i \in Branches :
      Branches = {i} =>
        /\ (Distance(i) < -128 \/ Distance(i) > 127) =>
             (result.err = "ValueOutOfRange" \/ result.err \in OtherErrors("ValueOutOfRange"))
        /\ (-128 <= Distance(i) /\ Distance(i) <= 127) =>
             result.err # "ValueOutOfRange"

\* C4: a program that defines the same label name on two lines fails with
\* DuplicateLabel (unless another error is reported first).
C4_DuplicateLabelFails ==
  phase = "done" =>
    ((\E i \in Items("label") : Cardinality(Definitions(src[i].name)) > 1) =>
       (result.err = "DuplicateLabel" \/ result.err \in OtherErrors("DuplicateLabel")))

\* C5: when an instruction or data directive refers to a name that is
\* neither a label nor a constant, assemble returns UnknownLabel (unless
\* another error is reported first); and assemble returns UnknownLabel only
\* when such an unbound name exists.
C5_UnknownLabelIffUnbound ==
  phase = "done" =>
    /\ (ReferencedNames \ DefinedNames # {}) =>
         (result.err = "UnknownLabel" \/ result.err \in OtherErrors("UnknownLabel"))
    /\ result.err = "UnknownLabel" => (ReferencedNames \ DefinedNames # {})

\* C6: the bytes of the returned binary are in source order: of two lines
\* that emit bytes, all bytes of the earlier line precede all bytes of the
\* later line.
C6_BytesInSourceOrder ==
  result.status = "Ok" =>
    \A i, j \in 1..Len(src) :
      (i < j /\ Emits(i) /\ Emits(j) /\ ChunkOf(i).len > 0 /\ ChunkOf(j).len > 0) =>
        ChunkOf(i).start + ChunkOf(i).len <= ChunkOf(j).start

\* the zero-page and the absolute mode of an operand variant
ZeroPageMode(kind) ==
  CASE kind = "Address" -> "ZeroPage"
    [] kind = "IndexedX" -> "ZeroPageX"
    [] kind = "IndexedY" -> "ZeroPageY"

AbsoluteMode(kind) ==
  CASE kind = "Address" -> "Absolute"
    [] kind = "IndexedX" -> "AbsoluteX"
    [] kind = "IndexedY" -> "AbsoluteY"

\* C7: for an Address, IndexedX or IndexedY operand (of an opcode that is no
\* branch) the classifier returns the zero-page mode exactly when the operand
\* value is at most 0xFF and the opcode table has an entry for the opcode in
\* that zero-page mode, and the absolute mode otherwise.
C7_ZeroPageByValue ==
  \A k \in 1..Len(pass1.sizes) :
    LET instruction == ast.instructions[k] IN
      (/\ instruction.operand # <<>>
       /\ instruction.opcode \notin BranchOpcodes
       /\ instruction.operand[1].kind \in {"Address", "IndexedX", "IndexedY"}
       /\ IsLiteral(instruction.operand[1].expr)) =>
        get_addressing_mode(instruction.operand[1], instruction.opcode) =
          IF /\ LiteralValue(instruction.operand[1].expr) <= 255
             /\ <<instruction.opcode, ZeroPageMode(instruction.operand[1].kind)>>
                  \in DOMAIN OPCODE_TABLE
          THEN ZeroPageMode(instruction.operand[1].kind)
          ELSE AbsoluteMode(instruction.operand[1].kind)

\* C8: the size instruction_size computes for an instruction in pass 1 is at
\* least the number of bytes encode_instruction emits for it in pass 2.
C8_SizeNeverShrinks ==
  \A k \in 1..Len(emitted.instructions) :
    pass1.sizes[k] >= emitted.instructions[k].len

\* pass 2 has emitted a 2-byte branch and a 3-byte instruction, each of the
\* size pass 1 computed
C8_Witness ==
  /\ result.status = "Ok"
  /\ \E k \in 1..Len(emitted.instructions) :
       pass1.sizes[k] = 3 /\ emitted.instructions[k].len = 3
  /\ \E k \in 1..Len(emitted.instructions) :
       /\ ast.instructions[k].opcode \in BranchOpcodes
       /\ pass1.sizes[k] = 2 /\ emitted.instructions[k].len = 2

\* C9: the length of the returned binary is the number of bytes by which
\* pass 1 advanced pc from the origin.
C9_LengthIsPass1Advance ==
  result.status = "Ok" => Len(result.bytes) = pass1.pc - pass1.origin

\* C10: when a pass returns an error, assemble returns that error and no
\* bytes; an Ok result never comes from a run in which a pass failed.
C10_ErrorAbortsAssembly ==
  /\ raised # <<>> =>
       /\ phase = "done"
       /\ result = [status |-> "Err", bytes |-> <<>>, err |-> raised[1]]
  /\ result.status = "Ok" => raised = <<>>

\* pass 2 failed after it had produced bytes, and assemble returned the error
C10_Witness ==
  /\ phase = "done"
  /\ raised # <<>>
  /\ binary # <<>>
  /\ result.status = "Err"
  /\ result.bytes = <<>>

RECURSIVE Circular(_, _, _)
\* following the definitions of the constant `name` leads back to a name
\* already met
Circular(constants, name, visited) ==
  IF name \in visited THEN TRUE
  ELSE IF name \in DOMAIN constants
  THEN Circular(constants, constants[name], visited \cup {name})
  ELSE FALSE

\* the instructions (no branches) whose operand is a circular constant
CircularOperands ==
  {i \in Items("instruction") :
     /\ src[i].body[1].operand # <<>>
     /\ src[i].body[1].opcode \notin BranchOpcodes
     /\ Definitions(src[i].body[1].operand[1].expr) = {}
     /\ Circular(ast.constants, src[i].body[1].operand[1].expr, {})}

\* the ways an assembly ends without returning: a panic, a stack overflow
Crashes == {"Panic", "StackOverflow"}

\* C11: when an operand is a name whose constant definitions are circular
\* (FG defined as FG), the evaluation terminates and assemble returns
\* InvalidExpression (unless another error is returned first); it never
\* recurses until the stack overflows.
C11_CircularConstantIsInvalidExpression ==
  phase = "done" =>
    /\ "StackOverflow" \notin {raised[k] : k \in 1..Len(raised)}
    /\ CircularOperands # {} =>
         \/ result.err = "InvalidExpression"
         \/ result.err \in OtherErrors("InvalidExpression") \ Crashes

\* the directive names the source text recognizes
RecognizedDirectives ==
  {<<"o", "r", "g">>, <<"c", "o", "n", "s", "t">>, <<"b", "y", "t", "e">>,
   <<"d", "b">>, <<"w", "o", "r", "d">>, <<"d", "w">>, <<"t", "e", "x", "t">>,
   <<"a", "s", "c", "i", "i">>, <<"i", "n", "c", "l", "u", "d", "e">>}

UnrecognizedDirectives ==
  {i \in Items("directive") : src[i].body[1].name \notin RecognizedDirectives}

\* C12: assemble returns UnknownDirective only for a program with a
\* directive whose name is outside the recognized set, and for every such
\* program (unless another error is returned first); a program with a
\* `.const` directive is not rejected as UnknownDirective.
C12_UnknownDirectiveIffUnrecognized ==
  phase = "done" =>
    /\ result.err = "UnknownDirective" => UnrecognizedDirectives # {}
    /\ UnrecognizedDirectives # {} =>
         (result.err = "UnknownDirective" \/ result.err \in OtherErrors("UnknownDirective"))

\* the largest operand value of an addressing mode
Limit(addr_mode) ==
  CASE addr_mode \in {"Immediate", "ZeroPage", "ZeroPageX", "ZeroPageY",
                      "IndexedIndirect", "IndirectIndexed"} -> 255
    [] addr_mode \in {"Absolute", "AbsoluteX", "AbsoluteY", "Indirect"} -> 65535
    [] OTHER -> 0

\* the instructions whose operand is a literal above the limit of its mode
OverLimitOperands ==
  {i \in Items("instruction") :
     /\ src[i].body[1].operand # <<>>
     /\ addr_mode_of(src[i].body[1]) \notin {"Implied", "Accumulator", "Relative"}
     /\ IsLiteral(value_str(src[i].body[1].operand[1], addr_mode_of(src[i].body[1])))
     /\ LiteralValue(value_str(src[i].body[1].operand[1], addr_mode_of(src[i].body[1])))
          > Limit(addr_mode_of(src[i].body[1]))}

\* the .byte (.word) directives with a literal element above 0xFF (0xFFFF)
OverLimitData ==
  {i \in Items("directive") :
     /\ src[i].body[1].name \in {<<"b", "y", "t", "e">>, <<"d", "b">>,
                                 <<"w", "o", "r", "d">>, <<"d", "w">>}
     /\ ~IsQuoted(src[i].body[1].value)
     /\ \E k \in 1..Len(split_values(src[i].body[1].value)) :
          /\ IsLiteral(split_values(src[i].body[1].value)[k])
          /\ LiteralValue(split_values(src[i].body[1].value)[k]) >
               (IF src[i].body[1].name \in {<<"b", "y", "t", "e">>, <<"d", "b">>}
                THEN 255 ELSE 65535)}

\* C13: a program with an operand or data element above the limit of its
\* mode is rejected with the error kind ValueOutOfRange (unless an error of
\* another cause is returned first): the range check reports no other kind.
C13_OverLimitIsValueOutOfRange ==
  (phase = "done" /\ OverLimitOperands \cup OverLimitData # {}) =>
    \/ result.err = "ValueOutOfRange"
    \/ result.err \in OtherErrors("ValueOutOfRange") \ {"SourceLineError"}

\* the elements of a sequence
Range(seq) == {seq[k] : k \in 1..Len(seq)}

\* C14: the resolution passes end with an empty unresolved set (success) or
\* with UnknownLabel for a set that the last pass left as it found it; at
\* most 5 passes run, and UnknownLabel is not returned after a single pass
\* that changed the set.
C14_ResolutionRepeatsUntilStable ==
  (phase = "done" /\ resolving.passes > 0) =>
    /\ resolving.passes <= MaxPasses
    /\ result.status = "Ok" => unresolved_refs = <<>>
    /\ result.err = "UnknownLabel" =>
         ~(resolving.passes = 1 /\ Range(unresolved_refs) # Range(resolving.refs))

\* the reference ref = <<pos, label, is_relative>> is patched: the byte after
\* its position holds the value of its label
Patched(ref) ==
  /\ ref[2] \in DOMAIN labels
  /\ ref[1] + 1 < Len(binary)
  /\ binary[ref[1] + 2] =
       IF ref[3] THEN as_u8(labels[ref[2]] - (ref[1] + 2)) ELSE lo(labels[ref[2]])

\* C15: every reference the resolution started with ends patched or makes
\* the assembly fail: when assemble succeeds, every reference has been
\* patched.
C15_ReferencePatchedOrFails ==
  (phase = "done" /\ resolving.passes > 0 /\ result.status = "Ok") =>
    \A k \in 1..Len(resolving.refs) : Patched(resolving.refs[k])

\* C16: every entry resolve_references goes through holds a position below
\* the length of the binary (the loop goes through every entry unless it
\* returns ValueOutOfRange).
C16_ReferencePositionInBinary ==
  (phase = "done" /\ resolving.passes > 0 /\ result.err # "ValueOutOfRange") =>
    \A k \in 1..Len(resolving.refs) : resolving.refs[k][1] < Len(binary)

\* C17: pc is within 0..=0xFFFF in every state of an assembly (of a program
\* whose .org lines stand first); an assembly in which pass 1 took pc above
\* 0xFFFF ends with an error.
C17_PcWithin16Bits ==
  OneOrigin =>
    /\ pc \in 0..65535
    /\ (phase = "done" /\ pass1.pc > 65535) => result.status = "Err"

\* C18: a step of the assembly keeps every binding of the label table: the
\* name stays bound, to the same address.
C18_LabelAddressImmutable ==
  [][\A n \in DOMAIN labels : n \in DOMAIN labels' /\ labels'[n] = labels[n]]_vars

\* code generation and a resolution pass have run with a label bound: the
\* binary holds bytes, a reference to the label has been gone through
C18_Witness ==
  /\ phase = "done"
  /\ result.status = "Ok"
  /\ binary # <<>>
  /\ resolving.passes > 0
  /\ \E k \in 1..Len(resolving.refs) : resolving.refs[k][2] \in DOMAIN labels

RECURSIVE Address(_)
\* the address source item i stands at: the value of the .org before it, or
\* the address and size of the item before it
Address(i) ==
  IF i = 1 THEN DefaultOrigin
  ELSE IF IsOrg(src[i - 1]) THEN LiteralValue(src[i - 1].body[1].value)
  ELSE Address(i - 1) + LineSize(i - 1)

\* the `.org N` lines whose N lies below the pc of the line, inside the
\* bytes an earlier line occupies
BackwardOrgs ==
  {i \in Items("directive") :
     /\ IsOrg(src[i])
     /\ IsLiteral(src[i].body[1].value)
     /\ LiteralValue(src[i].body[1].value) < Address(i)
     /\ \E j \in 1..(i - 1) :
          /\ LineSize(j) > 0
          /\ Address(j) <= LiteralValue(src[i].body[1].value)
          /\ LiteralValue(src[i].body[1].value) < Address(j) + LineSize(j)}

\* C19: an assembly of a program with a backward `.org` into bytes already
\* emitted fails with an error; an `.org` adds no bytes to the binary.
C19_BackwardOrgFails ==
  /\ (phase = "done" /\ BackwardOrgs # {}) => result.status = "Err"
  /\ \A k \in 1..Len(emitted.directives) :
       ast.directives[k].name = <<"o", "r", "g">> => emitted.directives[k].len = 0

\* the sequence with element k once more right after itself
Doubled(seq, k) ==
  [i \in 1..(Len(seq) + 1) |-> IF i <= k THEN seq[i] ELSE seq[i - 1]]

\* C20: a program (whose .org lines stand first) with a second `.org X`
\* right after one of its `.org X` assembles to what the program assembles
\* to: the same bytes or the same error.
C20_DoubledOrgChangesNothing ==
  (phase = "done" /\ OneOrigin) =>
    \A k \in 1..Len(ast.directives) :
      ast.directives[k].name = <<"o", "r", "g">> =>
        Returned(assemble([ast EXCEPT !.directives = Doubled(@, k)])) = result

\* the variant and expression a surface form stands for
FormOf(s, e) ==
  CASE s = <<"#">> \o e -> Operand("Immediate", e)
    [] s = e -> Operand("Address", e)
    [] s \in {e \o <<",", "X">>, e \o <<",", "x">>} -> Operand("IndexedX", e)
    [] s \in {e \o <<",", "Y">>, e \o <<",", "y">>} -> Operand("IndexedY", e)
    [] s = <<"(">> \o e \o <<")">> -> Operand("Indirect", e)
    [] s \in {<<"(">> \o e \o <<",", "X", ")">>, <<"(">> \o e \o <<",", "x", ")">>} ->
         Operand("IndexedIndirect", e)
    [] s \in {<<"(">> \o e \o <<")", ",", "Y">>, <<"(">> \o e \o <<")", ",", "y">>} ->
         Operand("IndirectIndexed", e)

\* C26: Operand::parse maps each surface form to its own variant, with the
\* expression inside; `(e),y` yields IndirectIndexed(e), never IndexedY, and
\* a text ending in `),Y` without a leading `(` is not IndirectIndexed.
C26_ParseMapsEachForm ==
  (given # None /\ got # None /\ given[1].fn = "Operand::parse") =>
    /\ \A e \in Expressions :
         given[1].arg \in SurfaceForms(e) \ {e \o <<")", ",", "Y">>} =>
           got[1] = FormOf(given[1].arg, e)
    /\ ~starts_with(given[1].arg, <<"(">>) => got[1].kind # "IndirectIndexed"

\* C30: parsing the text an Operand displays as gives the Operand back.
C30_DisplayParseRoundTrip ==
  (given # None /\ got # None /\ given[1].fn = "Operand::to_string") =>
    got[1] = given[1].arg

\* the operand forms for which encode_instruction selected the mode of the
\* table key it was called for
Selecting ==
  {form \in OperandForms : got[1][form].mode = given[1].arg[2]}

Encoding == given # None /\ got # None /\ given[1].fn = "encode_instruction"

\* C21: for every (opcode, mode) of the opcode table there is an operand
\* form for which encode_instruction selects the mode and emits bytes that
\* begin with the byte of the table entry; the Accumulator entries included.
C21_EveryEntryEncodable ==
  Encoding =>
    \E form \in Selecting :
      /\ got[1][form].r.ok
      /\ got[1][form].r.v[1] = OPCODE_TABLE[given[1].arg].byte

ShiftOpcodes == {"ASL", "LSR", "ROL", "ROR"}

\* C22: without an operand the mode is Implied, except for ASL, LSR, ROL
\* and ROR: for these an absent operand and the operand `A` select
\* Accumulator and encode as the one byte of the accumulator entry.
C22_AbsentOperandMode ==
  Encoding =>
    IF given[1].arg[1] \in ShiftOpcodes
    THEN \A form \in {None, Some(Operand_parse(<<"A">>))} :
           /\ got[1][form].mode = "Accumulator"
           /\ got[1][form].r =
                Ok(<<OPCODE_TABLE[<<given[1].arg[1], "Accumulator">>].byte>>)
    ELSE got[1][None].mode = "Implied"

\* C23: the opcode table has exactly 151 entries.
C23_TableHas151Entries ==
  Encoding => Cardinality(DOMAIN OPCODE_TABLE) = 151

\* C29: the size of a table entry is the size instruction_size gives its
\* mode, and the number of bytes encode_instruction emits in that mode: for
\* every operand form that selects the mode, and in the arm of the mode.
C29_TableSizeIsEncodedSize ==
  Encoding =>
    /\ OPCODE_TABLE[given[1].arg].size = mode_size(given[1].arg[2])
    /\ \A form \in Selecting :
         /\ got[1][form].size = OPCODE_TABLE[given[1].arg].size
         /\ got[1][form].r.ok =>
              Len(got[1][form].r.v) = OPCODE_TABLE[given[1].arg].size
    /\ Len(encode_operand(AssemblerNew, Operand("Address", Text_10), given[1].arg[2],
                          OPCODE_TABLE[given[1].arg].byte).r.v)
         = OPCODE_TABLE[given[1].arg].size

\* encode_instruction has emitted the three bytes of an entry of size 3
C29_Witness ==
  /\ Encoding
  /\ OPCODE_TABLE[given[1].arg].size = 3
  /\ \E form \in Selecting : got[1][form].r.ok /\ Len(got[1][form].r.v) = 3

RECURSIVE LittleEndian(_, _)
\* the words of values[i..], each as low byte, high byte
LittleEndian(values, i) ==
  IF i > Len(values) THEN <<>>
  ELSE <<LiteralValue(values[i]) % 256, LiteralValue(values[i]) \div 256>>
       \o LittleEndian(values, i + 1)

\* C24: a 16-bit value v is emitted low byte first, v mod 256 then
\* v div 256: as the operand of an Absolute, Absolute,X, Absolute,Y or
\* Indirect instruction, and as a .word element; the elements of a .word are
\* emitted in the order listed and each advances pc by 2.
C24_WordsAreLittleEndian ==
  /\ (given # None /\ got # None /\ given[1].fn = "encode_instruction(word)") =>
       /\ got[1].mode \in {"Absolute", "AbsoluteX", "AbsoluteY", "Indirect"}
       /\ got[1].r.ok
       /\ Len(got[1].r.v) = 3
       /\ SubSeq(got[1].r.v, 2, 3) =
            LittleEndian(<<value_str(given[1].arg.operand[1], got[1].mode)>>, 1)
  /\ (given # None /\ got # None /\ given[1].fn = "process_directive") =>
       /\ got[1].r.ok
       /\ got[1].self.binary = LittleEndian(split_values(given[1].arg.value), 1)
       /\ got[1].self.pc = 2 * Len(split_values(given[1].arg.value))

\* a .word with the two elements $ABCD, $1234 has been processed
C24_Witness ==
  /\ given # None /\ got # None /\ given[1].fn = "process_directive"
  /\ got[1].self.binary = <<205, 171, 52, 18>>
  /\ got[1].self.pc = 4

\* assemble has been called twice on one Assembler
Twice == given # None /\ got # None /\ given[1].fn = "Assembler::assemble"

\* C28: the result of the second of two assemble calls on one Assembler is
\* the result of a call with the same AST on a fresh Assembler: origin,
\* labels and unresolved references of the first call do not leak.
C28_AssembleDependsOnlyOnAst ==
  Twice => got[1].second.r = got[1].fresh

\* the Assembler of the second call when its generate_code has returned,
\* before resolve_references patches the binary
SecondGenerated ==
  generate_code(
    resolve_labels([got[1].first.self EXCEPT !.ast = given[1].arg[2]],
                   given[1].arg[2]).self,
    given[1].arg[2]).self

\* the instruction emitted at offset pos has a two-byte operand
WordOperandAt(instructions, pos) ==
  \E i \in 1..Len(instructions) :
    /\ Sum(sizes(SubSeq(instructions, 1, i - 1)), 1) = pos
    /\ instruction_size(instructions[i]) = 3

\* resolution changed the byte at offset k of the binary
PatchedAt(generated, resolved, k) == resolved[k + 1] # generated.binary[k + 1]

\* offset k is one that patching the reference ref may write: position+1,
\* and position+2 when the reference is to a two-byte operand
MayWrite(ref, k, instructions) ==
  \/ k = ref[1] + 1
  \/ k = ref[1] + 2 /\ ~ref[3] /\ WordOperandAt(instructions, ref[1])

\* C25: patching the reference of a one-byte operand changes only the byte
\* at position+1; the byte at position+2 and every other byte of the binary
\* are left unchanged, only the reference of a two-byte operand writes
\* position+2.
C25_BytePatchWritesOneByte ==
  (Twice /\ got[1].second.r.ok) =>
    \A k \in 0..(Len(got[1].second.r.v) - 1) :
      PatchedAt(SecondGenerated, got[1].second.r.v, k) =>
        \E j \in 1..Len(SecondGenerated.unresolved_refs) :
          MayWrite(SecondGenerated.unresolved_refs[j], k, given[1].arg[2].instructions)

\* the addressing mode of each operand rule
ModeOfRule ==
  "immediate" :> "Immediate" @@ "indexed_x" :> "AbsoluteX" @@ "indexed_y" :> "AbsoluteY"
  @@ "indirect" :> "Indirect" @@ "indexed_indirect" :> "IndexedIndirect"
  @@ "indirect_indexed" :> "IndirectIndexed" @@ "abs_zp" :> "Absolute"

\* the binary expression (SCREEN_BASE, +, $400)
ExampleExpr ==
  <<"Binary",
    << <<"L", <<"RefExpr", <<"SymbolRef", Str_SCREEN_BASE>>>>>>,
       <<"+">>,
       <<"L", <<"LiteralExpr", <<"NumberLiteral", <<"HexLiteral", Str_400>>>>>>>> >> >>

\* C27: the structured parser gives the operand of rule immediate,
\* indexed_x, indexed_y, indirect, indexed_indirect, indirect_indexed, abs_zp
\* the mode Immediate, AbsoluteX, AbsoluteY, Indirect, IndexedIndirect,
\* IndirectIndexed, Absolute, and answers any other rule with InvalidSyntax;
\* `sta SCREEN_BASE+$400,x` yields opcode STA with one AbsoluteX operand
\* holding the binary expression (SCREEN_BASE, +, $400).
C27_RuleDecidesMode ==
  /\ (given # None /\ got # None /\ given[1].fn = "RusmParser::parse_operand"
      /\ Len(given[1].arg) = 1) =>
       IF given[1].arg[1].rule \in DOMAIN ModeOfRule
       THEN got[1].ok /\ got[1].v[1] = ModeOfRule[given[1].arg[1].rule]
       ELSE ~got[1].ok /\ got[1].err = "InvalidSyntax"
  /\ (given # None /\ got # None /\ given[1].fn = "RusmParser::parse_op"
      /\ given[1].arg = ExampleOp) =>
       /\ got[1].ok
       /\ got[1].v = <<<<"S", "T", "A">>, Some(<<"AbsoluteX", ExampleExpr>>)>>

\* `sta SCREEN_BASE+$400,x` has been parsed into an op with an operand
C27_Witness ==
  /\ given # None /\ got # None /\ given[1].fn = "RusmParser::parse_op"
  /\ given[1].arg = ExampleOp
  /\ got[1].ok /\ got[1].v[2] # None

====
